---- MODULE Spec2Model ----
(***************************************************************************)
(* A model of package silent (destel/silent): MultiKeyCrypter, the framing *)
(* of its envelopes and the key ring it keeps.                             *)
(*                                                                         *)
(* Byte sequences are sequences of integers in 0..255.  The stream cipher  *)
(* engine (github.com/minio/sio, DARE 2.0) is outside the repository; it   *)
(* is modelled by a keyed stream with a keyed checksum that keeps the      *)
(* engine's interface: packages of a header, a masked payload of at most   *)
(* MaxPayloadSize bytes and a tag, a fresh nonce per stream, and a reader  *)
(* that rejects a package whose version or tag does not verify.            *)
(***************************************************************************)
EXTENDS Integers, Sequences, FiniteSets, TLC

(***************************************************************************)
(* Program constants.                                                      *)
(***************************************************************************)
\* writeByte(w, 1) / case 1
TagV1 == 1
\* writeByte(w, '#') / case '#'
TagBypass == 35
\* len(key) < 32
MinKeyLen == 32
\* key[:32]
EngineKeyLen == 32
\* sio.Version20
Version20 == 32

(***************************************************************************)
(* Bounds of the model.                                                    *)
(***************************************************************************)
\* longest plaintext handed to Encrypt
MaxLen == 2
\* payload bytes per engine package (64 KiB in sio, scaled down)
MaxPayloadSize == 1

\* most entries the registry gets
MaxEntries == 3
\* most Close calls on one writer
MaxCloses == 2

\* 257 = 0x0101 differs from 1 in one byte of its little-endian form
KeyIDs == {1, 257}
Nonces == {0, 7}

Fill(n, b) == [i \in 1..n |-> b]
KeyA == Fill(MinKeyLen, 17)
\* longer than 32 bytes, same first 32 bytes as KeyA
KeyALong == KeyA \o <<9>>
KeyB == Fill(MinKeyLen, 34)
KeyShort == Fill(MinKeyLen - 1, 17)
GoodKeys == {KeyA, KeyALong, KeyB}
Secrets == GoodKeys \cup {KeyShort}

\* "H#\x01i!."
Text == <<72, 35, 1, 105, 33, 46>>
Plaintexts == {SubSeq(Text, 1, n) : n \in 0..MaxLen}

Min(a, b) == IF a < b THEN a ELSE b

RECURSIVE SumSeq(_)
SumSeq(s) == IF s = <<>> THEN 0 ELSE Head(s) + SumSeq(Tail(s))

(***************************************************************************)
(* Little-endian uint32 framing.                                           *)
(***************************************************************************)
\* variant: the key id written big-endian
writeUint32BE(value) ==
    << (value \div 16777216) % 256,
       (value \div 65536) % 256,
       (value \div 256) % 256,
       value % 256 >>

writeUint32(value) ==
    << value % 256,
       (value \div 256) % 256,
       (value \div 65536) % 256,
       (value \div 16777216) % 256 >>

readUint32(data) ==
    data[1] + data[2] * 256 + data[3] * 65536 + data[4] * 16777216

(***************************************************************************)
(* The engine: sio.EncryptWriter / sio.DecryptReader / sio.EncryptedSize.  *)
(***************************************************************************)
EngineKeyStream(key, nonce, i) == (SumSeq(key) + 3 * nonce + i) % 256

RECURSIVE EngineWeigh(_, _)
EngineWeigh(body, i) ==
    IF i > Len(body) THEN 0 ELSE (2 * i + 1) * body[i] + EngineWeigh(body, i + 1)

EngineTag(key, header, body) ==
    (7 * SumSeq(key) + 5 * header[2] + 11 * header[3] + EngineWeigh(body, 1)) % 256

EngineSealPackage(key, nonce, chunk) ==
    LET header == <<Version20, Len(chunk), nonce % 256>>
        body == [i \in 1..Len(chunk) |->
                    (chunk[i] + EngineKeyStream(key, header[3], i)) % 256]
    IN  header \o body \o <<EngineTag(key, header, body)>>

RECURSIVE EngineSeal(_, _, _)
EngineSeal(key, nonce, p) ==
    IF p = <<>> THEN <<>>
    ELSE LET n == Min(Len(p), MaxPayloadSize)
         IN  EngineSealPackage(key, nonce, SubSeq(p, 1, n))
                \o EngineSeal(key, nonce + 1, SubSeq(p, n + 1, Len(p)))

\* sio.EncryptWriter followed by Write(p) and Close()
EngineEncrypt(key, nonce, p) == EngineSeal(key, nonce, p)

EnginePackageOverhead == Len(EngineSealPackage(KeyA, 0, <<>>))

\* sio.EncryptedSize
EngineEncryptedSize(n) ==
    n + EnginePackageOverhead * ((n + MaxPayloadSize - 1) \div MaxPayloadSize)

RECURSIVE EngineOpen(_, _, _)
EngineOpen(key, minVersion, c) ==
    IF c = <<>> THEN [ok |-> TRUE, data |-> <<>>]
    ELSE IF Len(c) < 3 THEN [ok |-> FALSE, data |-> <<>>]
    ELSE LET header == SubSeq(c, 1, 3)
             size == header[2]
         IN  IF \/ header[1] < minVersion
                \/ header[1] # Version20
                \/ size < 1
                \/ size > MaxPayloadSize
                \/ Len(c) < 3 + size + 1
             THEN [ok |-> FALSE, data |-> <<>>]
             ELSE LET body == SubSeq(c, 4, 3 + size)
                      rest == EngineOpen(key, minVersion, SubSeq(c, 5 + size, Len(c)))
                  IN  IF c[4 + size] # EngineTag(key, header, body) \/ ~rest.ok
                      THEN [ok |-> FALSE, data |-> <<>>]
                      ELSE [ok |-> TRUE,
                            data |-> [i \in 1..size |->
                                        (body[i] + 256 - EngineKeyStream(key, header[3], i)) % 256]
                                     \o rest.data]

\* sio.DecryptReader drained by io.Copy; sio rejects an empty stream
EngineDecrypt(key, minVersion, c) ==
    IF c = <<>> THEN [ok |-> FALSE, data |-> <<>>]
    ELSE EngineOpen(key, minVersion, c)

(***************************************************************************)
(* MultiKeyCrypter.  A crypter value s is the record of its fields:        *)
(* keys (a nil map and an empty map both read as the empty function),      *)
(* lastKeyID, sioMinVersion (sioConfigTemplate.MinVersion) and Bypass.     *)
(***************************************************************************)
ErrNone == "nil"
ErrUnsupportedVersion == "unsupported version"
ErrUnknownKey == "unknown key id"
ErrEOF == "EOF"
ErrUnexpectedEOF == "unexpected EOF"
\* any error of the reader sio.DecryptReader returns
ErrEngine == "sio: error"
PanicNone == ""
PanicShortKey == "misconfiguration: key must be at least 32 bytes"
PanicDuplicateKey == "misconfiguration: all key ids must be unique"
PanicNoKeys == "misconfiguration: no keys were added"

NoKeys == [id \in {} |-> <<>>]

ZeroCrypter ==
    [keys |-> NoKeys, lastKeyID |-> 0, sioMinVersion |-> 0, Bypass |-> FALSE]

\* s.keys[keyID] != nil
HasKey(s, keyID) == keyID \in DOMAIN s.keys

\* variant: the engine keyed with the whole secret
EngineKeyWhole(key) == key

\* key[:32]
EngineKey(key) == SubSeq(key, 1, EngineKeyLen)

\* variant: the new key replaces the ring instead of joining it
AddKeyStoreReplace(s, keyID, key) ==
    [s EXCEPT !.keys = [id \in {keyID} |-> key], !.lastKeyID = keyID]

AddKeyStore(s, keyID, key) ==
    [s EXCEPT !.keys = [id \in DOMAIN s.keys \cup {keyID} |->
                            IF id = keyID THEN key ELSE s.keys[id]],
              !.lastKeyID = keyID]

\* variant: lastKeyID assigned before the key is validated
AddKeyCallEarlyLast(s, keyID, key) ==
    LET s1 == [s EXCEPT !.sioMinVersion = Version20, !.lastKeyID = keyID]
    IN  IF Len(key) < MinKeyLen
        THEN [s |-> s1, panic |-> PanicShortKey]
        ELSE IF HasKey(s1, keyID)
        THEN [s |-> s1, panic |-> PanicDuplicateKey]
        ELSE [s |-> AddKeyStore(s1, keyID, key), panic |-> PanicNone]

\* (s *MultiKeyCrypter) AddKey: the crypter afterwards and the panic raised
AddKeyCall(s, keyID, key) ==
    LET s1 == IF s.sioMinVersion = 0
              THEN [s EXCEPT !.sioMinVersion = Version20]
              ELSE s
    IN  IF Len(key) < MinKeyLen
        THEN [s |-> s1, panic |-> PanicShortKey]
        ELSE IF HasKey(s1, keyID)
        THEN [s |-> s1, panic |-> PanicDuplicateKey]
        ELSE [s |-> AddKeyStore(s1, keyID, key), panic |-> PanicNone]

\* variant: the four key-id bytes left out of the prediction
EncryptedSizeCallNoKeyID(s, dataSize) ==
    IF dataSize = 0 THEN 0
    ELSE IF s.Bypass THEN dataSize + 1
    ELSE EngineEncryptedSize(dataSize) + 1

\* (s *MultiKeyCrypter) EncryptedSize
EncryptedSizeCall(s, dataSize) ==
    IF dataSize = 0 THEN 0
    ELSE IF s.Bypass THEN dataSize + 1
    ELSE EngineEncryptedSize(dataSize) + 5

\* variant: the key looked up before the Bypass flag is read
FirstWriteKeyFirst(s, p, nonce) ==
    IF ~HasKey(s, s.lastKeyID)
    THEN [out |-> <<>>, panic |-> PanicNoKeys]
    ELSE IF s.Bypass
    THEN [out |-> <<TagBypass>> \o p, panic |-> PanicNone]
    ELSE [out |-> <<TagV1>> \o writeUint32(s.lastKeyID)
                    \o EngineEncrypt(EngineKey(s.keys[s.lastKeyID]), nonce, p),
          panic |-> PanicNone]

\* ew.WriteFunc of EncryptWriter on its first non-empty Write(p), then Close:
\* the bytes the sink holds and the panic raised
FirstWrite(s, p, nonce) ==
    IF s.Bypass
    THEN [out |-> <<TagBypass>> \o p, panic |-> PanicNone]
    ELSE LET head == <<TagV1>> \o writeUint32(s.lastKeyID)
         IN  IF ~HasKey(s, s.lastKeyID)
             THEN [out |-> head, panic |-> PanicNoKeys]
             ELSE [out |-> head \o EngineEncrypt(EngineKey(s.keys[s.lastKeyID]), nonce, p),
                   panic |-> PanicNone]

\* variant: no early return for empty data, and a writer that frames it
EncryptCallNoEmptyCheck(s, data, nonce) ==
    LET w == FirstWrite(s, data, nonce)
    IN  IF w.panic # PanicNone
        THEN [out |-> <<>>, err |-> ErrNone, panic |-> w.panic]
        ELSE [out |-> w.out, err |-> ErrNone, panic |-> PanicNone]

\* (s *MultiKeyCrypter) Encrypt: a panic leaves no return value
EncryptCall(s, data, nonce) ==
    IF Len(data) = 0
    THEN [out |-> <<>>, err |-> ErrNone, panic |-> PanicNone]
    ELSE LET w == FirstWrite(s, data, nonce)
         IN  IF w.panic # PanicNone
             THEN [out |-> <<>>, err |-> ErrNone, panic |-> w.panic]
             ELSE [out |-> w.out, err |-> ErrNone, panic |-> PanicNone]

\* variant: the peeked byte is not put back
PutBackLost(firstByte, r) == r

\* r = io.MultiReader(bytes.NewReader(firstByte[:]), r)
PutBack(firstByte, r) == <<firstByte>> \o r

\* variant of case 1: the byte after the key id is read before the key is
\* looked up
DecryptV1PeekFirst(s, r) ==
    IF Len(r) = 0 THEN [out |-> <<>>, err |-> ErrEOF, engine |-> <<>>]
    ELSE IF Len(r) < 4 THEN [out |-> <<>>, err |-> ErrUnexpectedEOF, engine |-> <<>>]
    ELSE LET keyID == readUint32(r)
             r1 == SubSeq(r, 5, Len(r))
         IN  IF Len(r1) = 0
             THEN [out |-> <<>>, err |-> ErrNone, engine |-> <<>>]
             ELSE IF ~HasKey(s, keyID)
             THEN [out |-> <<>>, err |-> ErrUnknownKey, engine |-> <<>>]
             ELSE LET c == PutBack(Head(r1), Tail(r1))
                      e == EngineDecrypt(EngineKey(s.keys[keyID]), s.sioMinVersion, c)
                  IN  IF e.ok
                      THEN [out |-> e.data, err |-> ErrNone, engine |-> <<c>>]
                      ELSE [out |-> <<>>, err |-> ErrEngine, engine |-> <<c>>]

\* variant of case 1: what follows the key id goes to the engine unseen
DecryptV1NoPeek(s, r) ==
    IF Len(r) = 0 THEN [out |-> <<>>, err |-> ErrEOF, engine |-> <<>>]
    ELSE IF Len(r) < 4 THEN [out |-> <<>>, err |-> ErrUnexpectedEOF, engine |-> <<>>]
    ELSE LET keyID == readUint32(r)
             r1 == SubSeq(r, 5, Len(r))
         IN  IF ~HasKey(s, keyID)
             THEN [out |-> <<>>, err |-> ErrUnknownKey, engine |-> <<>>]
             ELSE LET e == EngineDecrypt(EngineKey(s.keys[keyID]), s.sioMinVersion, r1)
                  IN  IF e.ok
                      THEN [out |-> e.data, err |-> ErrNone, engine |-> <<r1>>]
                      ELSE [out |-> <<>>, err |-> ErrEngine, engine |-> <<r1>>]

\* case 1 of DecryptReader, r being what follows the tag; engine is the list
\* of the streams sio.DecryptReader was given, empty when it was not called
DecryptV1(s, r) ==
    IF Len(r) = 0 THEN [out |-> <<>>, err |-> ErrEOF, engine |-> <<>>]
    ELSE IF Len(r) < 4 THEN [out |-> <<>>, err |-> ErrUnexpectedEOF, engine |-> <<>>]
    ELSE LET keyID == readUint32(r)
             r1 == SubSeq(r, 5, Len(r))
         IN  IF ~HasKey(s, keyID)
             THEN [out |-> <<>>, err |-> ErrUnknownKey, engine |-> <<>>]
             ELSE IF Len(r1) = 0
             THEN [out |-> <<>>, err |-> ErrNone, engine |-> <<>>]
             ELSE LET c == PutBack(Head(r1), Tail(r1))
                      e == EngineDecrypt(EngineKey(s.keys[keyID]), s.sioMinVersion, c)
                  IN  IF e.ok
                      THEN [out |-> e.data, err |-> ErrNone, engine |-> <<c>>]
                      ELSE [out |-> <<>>, err |-> ErrEngine, engine |-> <<c>>]

\* (s *MultiKeyCrypter) DecryptReader, the reader it returns drained by
\* io.Copy
DecryptReaderCall(s, data) ==
    IF Len(data) = 0
    THEN [out |-> <<>>, err |-> ErrNone, engine |-> <<>>]
    ELSE LET version == data[1]
             r == Tail(data)
         IN  IF version = TagBypass THEN [out |-> r, err |-> ErrNone, engine |-> <<>>]
             ELSE IF version = TagV1 THEN DecryptV1(s, r)
             ELSE [out |-> <<>>, err |-> ErrUnsupportedVersion, engine |-> <<>>]

\* variant: a bypass-mode crypter reads every envelope as bypass data
DecryptCallBypassRaw(s, data) ==
    LET d == DecryptReaderCall(s, data)
    IN  IF Len(data) = 0
        THEN [out |-> <<>>, err |-> ErrNone]
        ELSE IF s.Bypass THEN [out |-> Tail(data), err |-> ErrNone]
        ELSE [out |-> d.out, err |-> d.err]

\* (s *MultiKeyCrypter) Decrypt: the bytes and the error it returns
DecryptCall(s, data) ==
    LET d == DecryptReaderCall(s, data)
    IN  IF Len(data) = 0
        THEN [out |-> <<>>, err |-> ErrNone]
        ELSE [out |-> d.out, err |-> d.err]

(***************************************************************************)
(* Text encodings used by the JSON hooks of EncryptedValue: utf8.Valid,    *)
(* the string encoder and decoder of encoding/json (go 1.21, with          *)
(* SetEscapeHTML(false)) and base64.StdEncoding.  Text is a sequence of    *)
(* bytes, as []byte and string are in Go.                                  *)
(***************************************************************************)
\* 0x80..0xBF
IsCont(b) == b >= 128 /\ b <= 191

\* number of bytes of the UTF-8 encoding s starts with; 0 when s starts with
\* none (utf8.DecodeRune returning RuneError, 1)
RuneLen(s) ==
    IF s = <<>> THEN 0
    ELSE LET b == s[1]
             n == Len(s)
         IN  IF b < 128 THEN 1
             ELSE IF b >= 194 /\ b <= 223
             THEN IF n >= 2 /\ IsCont(s[2]) THEN 2 ELSE 0
             ELSE IF b >= 224 /\ b <= 239
             THEN IF /\ n >= 3
                     /\ s[2] >= (IF b = 224 THEN 160 ELSE 128)
                     /\ s[2] <= (IF b = 237 THEN 159 ELSE 191)
                     /\ IsCont(s[3])
                  THEN 3 ELSE 0
             ELSE IF b >= 240 /\ b <= 244
             THEN IF /\ n >= 4
                     /\ s[2] >= (IF b = 240 THEN 144 ELSE 128)
                     /\ s[2] <= (IF b = 244 THEN 143 ELSE 191)
                     /\ IsCont(s[3])
                     /\ IsCont(s[4])
                  THEN 4 ELSE 0
             ELSE 0

\* utf8.Valid
RECURSIVE utf8Valid(_)
utf8Valid(s) ==
    IF s = <<>> THEN TRUE
    ELSE LET n == RuneLen(s)
         IN  IF n = 0 THEN FALSE ELSE utf8Valid(SubSeq(s, n + 1, Len(s)))

\* utf8.AppendRune
EncodeRune(r) ==
    IF r < 128 THEN <<r>>
    ELSE IF r < 2048 THEN <<192 + (r \div 64), 128 + (r % 64)>>
    ELSE IF r < 65536
    THEN <<224 + (r \div 4096), 128 + ((r \div 64) % 64), 128 + (r % 64)>>
    ELSE <<240 + (r \div 262144), 128 + ((r \div 4096) % 64),
           128 + ((r \div 64) % 64), 128 + (r % 64)>>

\* utf8.RuneError, U+FFFD, encoded
RuneErrorBytes == EncodeRune(65533)

\* "0123456789abcdef"[n]
HexDigit(n) == IF n < 10 THEN 48 + n ELSE 87 + n

\* value of a hexadecimal digit, -1 for any other byte
HexVal(c) ==
    IF c >= 48 /\ c <= 57 THEN c - 48
    ELSE IF c >= 97 /\ c <= 102 THEN c - 87
    ELSE IF c >= 65 /\ c <= 70 THEN c - 55
    ELSE -1

\* the body of the literal json.Encoder writes for the string s
RECURSIVE jsonEscape(_)
jsonEscape(s) ==
    IF s = <<>> THEN <<>>
    ELSE LET b == s[1]
             n == RuneLen(s)
         IN  IF b < 128
             THEN (IF b = 34 \/ b = 92 THEN <<92, b>>
                   ELSE IF b = 10 THEN <<92, 110>>
                   ELSE IF b = 13 THEN <<92, 114>>
                   ELSE IF b = 9 THEN <<92, 116>>
                   ELSE IF b < 32
                   THEN <<92, 117, 48, 48, HexDigit(b \div 16), HexDigit(b % 16)>>
                   ELSE <<b>>)
                      \o jsonEscape(Tail(s))
             ELSE IF n = 0
             THEN <<92, 117, 102, 102, 102, 100>> \o jsonEscape(Tail(s))
             ELSE IF n = 3 /\ b = 226 /\ s[2] = 128 /\ s[3] \in {168, 169}
             THEN <<92, 117, 50, 48, 50, HexDigit(s[3] % 16)>>
                      \o jsonEscape(SubSeq(s, 4, Len(s)))
             ELSE SubSeq(s, 1, n) \o jsonEscape(SubSeq(s, n + 1, Len(s)))

\* a body between double quotes
Quote(body) == <<34>> \o body \o <<34>>

\* the four hexadecimal digits at lit[i..i+3] as a number, -1 when they are
\* not four hexadecimal digits
Hex4(lit, i) ==
    IF i + 3 > Len(lit) THEN -1
    ELSE IF \E k \in 0..3 : HexVal(lit[i + k]) = -1 THEN -1
    ELSE HexVal(lit[i]) * 4096 + HexVal(lit[i + 1]) * 256
            + HexVal(lit[i + 2]) * 16 + HexVal(lit[i + 3])

\* the byte a one-letter escape stands for, -1 for any other letter
EscapeVal(c) ==
    IF c = 34 \/ c = 92 \/ c = 47 THEN c
    ELSE IF c = 98 THEN 8
    ELSE IF c = 102 THEN 12
    ELSE IF c = 110 THEN 10
    ELSE IF c = 114 THEN 13
    ELSE IF c = 116 THEN 9
    ELSE -1

\* the string of the literal lit from place i on, the opening quote being at
\* place 1: ok only when the closing quote is the last byte of lit
RECURSIVE unquoteFrom(_, _)
unquoteFrom(lit, i) ==
    LET bad == [ok |-> FALSE, s |-> <<>>]
        cons(bytes, rest) == IF rest.ok THEN [ok |-> TRUE, s |-> bytes \o rest.s]
                             ELSE bad
    IN  IF i > Len(lit) THEN bad
        ELSE LET b == lit[i]
             IN  IF b = 34
                 THEN IF i = Len(lit) THEN [ok |-> TRUE, s |-> <<>>] ELSE bad
                 ELSE IF b = 92
                 THEN IF i + 1 > Len(lit) THEN bad
                      ELSE IF lit[i + 1] = 117
                      THEN LET r == Hex4(lit, i + 2)
                               r2 == IF /\ i + 7 <= Len(lit)
                                        /\ lit[i + 6] = 92
                                        /\ lit[i + 7] = 117
                                     THEN Hex4(lit, i + 8) ELSE -1
                           IN  IF r = -1 THEN bad
                               ELSE IF r >= 55296 /\ r <= 56319
                                       /\ r2 >= 56320 /\ r2 <= 57343
                               THEN cons(EncodeRune(65536 + (r - 55296) * 1024
                                                       + (r2 - 56320)),
                                         unquoteFrom(lit, i + 12))
                               ELSE IF r >= 55296 /\ r <= 57343
                               THEN cons(RuneErrorBytes, unquoteFrom(lit, i + 6))
                               ELSE cons(EncodeRune(r), unquoteFrom(lit, i + 6))
                      ELSE IF EscapeVal(lit[i + 1]) = -1 THEN bad
                      ELSE cons(<<EscapeVal(lit[i + 1])>>, unquoteFrom(lit, i + 2))
                 ELSE IF b < 32 THEN bad
                 ELSE IF b < 128 THEN cons(<<b>>, unquoteFrom(lit, i + 1))
                 ELSE LET n == RuneLen(SubSeq(lit, i, Len(lit)))
                      IN  IF n = 0
                          THEN cons(RuneErrorBytes, unquoteFrom(lit, i + 1))
                          ELSE cons(SubSeq(lit, i, i + n - 1),
                                    unquoteFrom(lit, i + n))

\* a JSON string literal, unquoted
Unquote(lit) ==
    IF Len(lit) >= 2 /\ lit[1] = 34 THEN unquoteFrom(lit, 2)
    ELSE [ok |-> FALSE, s |-> <<>>]

\* "ABC...Zabc...z0123456789+/"[v]
B64Char(v) ==
    IF v < 26 THEN 65 + v
    ELSE IF v < 52 THEN 71 + v
    ELSE IF v < 62 THEN v - 4
    ELSE IF v = 62 THEN 43
    ELSE 47

\* place of c in the base64 alphabet, -1 for any other byte
B64Val(c) ==
    IF c >= 65 /\ c <= 90 THEN c - 65
    ELSE IF c >= 97 /\ c <= 122 THEN c - 71
    ELSE IF c >= 48 /\ c <= 57 THEN c + 4
    ELSE IF c = 43 THEN 62
    ELSE IF c = 47 THEN 63
    ELSE -1

\* base64.StdEncoding.EncodeToString
RECURSIVE base64Encode(_)
base64Encode(b) ==
    IF b = <<>> THEN <<>>
    ELSE IF Len(b) = 1
    THEN <<B64Char(b[1] \div 4), B64Char((b[1] % 4) * 16), 61, 61>>
    ELSE IF Len(b) = 2
    THEN <<B64Char(b[1] \div 4), B64Char((b[1] % 4) * 16 + (b[2] \div 16)),
           B64Char((b[2] % 16) * 4), 61>>
    ELSE <<B64Char(b[1] \div 4), B64Char((b[1] % 4) * 16 + (b[2] \div 16)),
           B64Char((b[2] % 16) * 4 + (b[3] \div 64)), B64Char(b[3] % 64)>>
            \o base64Encode(SubSeq(b, 4, Len(b)))

\* groups of four characters decoded; padding only in the last group
RECURSIVE base64DecodeQuads(_)
base64DecodeQuads(t) ==
    LET bad == [ok |-> FALSE, b |-> <<>>]
    IN  IF t = <<>> THEN [ok |-> TRUE, b |-> <<>>]
        ELSE IF Len(t) < 4 THEN bad
        ELSE LET v1 == B64Val(t[1])
                 v2 == B64Val(t[2])
                 v3 == B64Val(t[3])
                 v4 == B64Val(t[4])
                 last == Len(t) = 4
             IN  IF v1 = -1 \/ v2 = -1 THEN bad
                 ELSE IF last /\ t[3] = 61 /\ t[4] = 61
                 THEN [ok |-> TRUE, b |-> <<v1 * 4 + (v2 \div 16)>>]
                 ELSE IF v3 = -1 THEN bad
                 ELSE IF last /\ t[4] = 61
                 THEN [ok |-> TRUE,
                       b |-> <<v1 * 4 + (v2 \div 16), (v2 % 16) * 16 + (v3 \div 4)>>]
                 ELSE IF v4 = -1 THEN bad
                 ELSE LET rest == base64DecodeQuads(SubSeq(t, 5, Len(t)))
                      IN  IF ~rest.ok THEN bad
                          ELSE [ok |-> TRUE,
                                b |-> <<v1 * 4 + (v2 \div 16),
                                        (v2 % 16) * 16 + (v3 \div 4),
                                        (v3 % 4) * 64 + v4>> \o rest.b]

\* base64.StdEncoding.Decode, which skips '\r' and '\n'
base64Decode(t) ==
    base64DecodeQuads(SelectSeq(t, LAMBDA c : c # 13 /\ c # 10))

\* JSON white space
IsSpace(c) == c \in {32, 9, 10, 13}

RECURSIVE TrimLeft(_)
TrimLeft(t) == IF t # <<>> /\ IsSpace(t[1]) THEN TrimLeft(Tail(t)) ELSE t

RECURSIVE TrimRight(_)
TrimRight(t) ==
    IF t # <<>> /\ IsSpace(t[Len(t)]) THEN TrimRight(SubSeq(t, 1, Len(t) - 1))
    ELSE t

TrimSpace(t) == TrimRight(TrimLeft(t))

\* "null"
NullLiteral == <<110, 117, 108, 108>>

\* `""`
EmptyStringLiteral == <<34, 34>>

\* t cut at its commas
RECURSIVE SplitCommas(_)
SplitCommas(t) ==
    LET commas == {i \in 1..Len(t) : t[i] = 44}
    IN  IF commas = {} THEN <<t>>
        ELSE LET i == CHOOSE k \in commas : \A j \in commas : k <= j
             IN  <<SubSeq(t, 1, i - 1)>> \o SplitCommas(SubSeq(t, i + 1, Len(t)))

\* the number a run of decimal digits writes, -1 when t is not a JSON
\* integer without sign, fraction or exponent
RECURSIVE DigitsVal(_)
DigitsVal(t) ==
    IF t = <<>> THEN -1
    ELSE IF \E i \in 1..Len(t) : t[i] < 48 \/ t[i] > 57 THEN -1
    ELSE IF Len(t) > 1 /\ t[1] = 48 THEN -1
    ELSE IF Len(t) = 1 THEN t[1] - 48
    ELSE DigitsVal(SubSeq(t, 1, Len(t) - 1)) * 10 + (t[Len(t)] - 48)

\* one element of a JSON array decoded into a uint8: a number 0..255, or
\* null, which leaves the element zero; -1 for anything else
ByteElement(t) ==
    LET e == TrimSpace(t)
    IN  IF e = NullLiteral THEN 0
        ELSE IF Len(e) > 3 THEN -1
        ELSE IF DigitsVal(e) > 255 THEN -1
        ELSE DigitsVal(e)

ErrJSON == "json: error"

\* json.Unmarshal(data, &target) for a string target: the error and target
jsonUnmarshalString(data) ==
    LET t == TrimSpace(data)
        u == Unquote(t)
    IN  IF t = NullLiteral THEN [err |-> ErrNone, s |-> <<>>]
        ELSE IF u.ok THEN [err |-> ErrNone, s |-> u.s]
        ELSE [err |-> ErrJSON, s |-> <<>>]

\* json.Unmarshal(data, &encData) for a []byte target: a string literal is
\* base64, an array literal gives its elements, null gives nil
jsonUnmarshalBytes(data) ==
    LET t == TrimSpace(data)
        bad == [err |-> ErrJSON, b |-> <<>>]
    IN  IF t = NullLiteral THEN [err |-> ErrNone, b |-> <<>>]
        ELSE IF t = <<>> THEN bad
        ELSE IF t[1] = 34
        THEN LET u == Unquote(t)
                 d == base64Decode(u.s)
             IN  IF u.ok /\ d.ok THEN [err |-> ErrNone, b |-> d.b] ELSE bad
        ELSE IF t[1] = 91 /\ t[Len(t)] = 93 /\ Len(t) >= 2
        THEN LET inner == TrimSpace(SubSeq(t, 2, Len(t) - 1))
                 parts == SplitCommas(inner)
             IN  IF inner = <<>> THEN [err |-> ErrNone, b |-> <<>>]
                 ELSE IF \E i \in 1..Len(parts) : ByteElement(parts[i]) = -1
                 THEN bad
                 ELSE [err |-> ErrNone,
                       b |-> [i \in 1..Len(parts) |-> ByteElement(parts[i])]]
        ELSE bad

(***************************************************************************)
(* The crypter registry of value.go: var crypters []crypterMapping.  A     *)
(* kind is the type argument T of EncryptedValueFactory[T]; the constraint *)
(* `T any` admits struct types (dummy, dummy1, dummy2) and interface types *)
(* (any itself).  Zero holds `var zero T` boxed in an interface value: the *)
(* dynamic type T for a struct type, the nil interface for an interface    *)
(* type.  A crypter is held by reference (&c1, &c2).                       *)
(***************************************************************************)
PanicAlreadyRegistered == "misconfigurtion: crypter already registered"
PanicNoCrypter == "misconfiguration: no crypter registered for this type"

StructKinds == {"dummy", "dummy1", "dummy2"}
InterfaceKinds == {"any"}
Kinds == StructKinds \cup InterfaceKinds

\* the nil interface value
NilInterface == "<nil>"

\* var zero T, stored in the field Zero of type any
ZeroOf(T) == IF T \in InterfaceKinds THEN NilInterface ELSE T

\* every type implements the empty interface
Implements(dyn, T) == T = "any"

\* _, ok := c.Zero.(T)
TypeAssert(zero, T) ==
    IF zero = NilInterface THEN FALSE
    ELSE IF T \in InterfaceKinds THEN Implements(zero, T)
    ELSE zero = T

\* &c1, &c2 of TestEncryptedValue
CrypterRefs == {"c1", "c2"}

\* RegisterCrypterFor / BindCrypterTo: the registry afterwards and the panic
RegisterCall(reg, T, c) ==
    IF \E i \in 1..Len(reg) : TypeAssert(reg[i].Zero, T)
    THEN [crypters |-> reg, panic |-> PanicAlreadyRegistered]
    ELSE [crypters |-> Append(reg, [Zero |-> ZeroOf(T), Crypter |-> c]),
          panic |-> PanicNone]

\* getCrypterFor: the crypter of the first entry whose Zero asserts to T
getCrypterFor(reg, T) ==
    LET hits == {i \in 1..Len(reg) : TypeAssert(reg[i].Zero, T)}
    IN  IF hits = {}
        THEN [Crypter |-> "", panic |-> PanicNoCrypter]
        ELSE [Crypter |-> reg[CHOOSE i \in hits : \A j \in hits : i <= j].Crypter,
              panic |-> PanicNone]

(***************************************************************************)
(* The hooks of EncryptedValueFactory[T].  reg is the registry and heap    *)
(* gives the MultiKeyCrypter each reference points to.  Each hook returns  *)
(* its result, its error and the panic raised; UnmarshalJSON and Scan      *)
(* return as v what the receiver *v holds afterwards, dst being what it    *)
(* held before.                                                            *)
(***************************************************************************)
ErrScan == "unable to scan into EncryptedValue"
PanicSliceBounds == "runtime error: slice bounds out of range"

\* variant: the text form without its '#' marker
MarshalJSONCallNoMarker(reg, heap, T, v, nonce) ==
    LET g == getCrypterFor(reg, T)
        e == EncryptCall(heap[g.Crypter], v, nonce)
    IN  IF Len(v) = 0
        THEN [out |-> EmptyStringLiteral, err |-> ErrNone, panic |-> PanicNone]
        ELSE IF g.panic # PanicNone
        THEN [out |-> <<>>, err |-> ErrNone, panic |-> g.panic]
        ELSE IF e.panic # PanicNone
        THEN [out |-> <<>>, err |-> ErrNone, panic |-> e.panic]
        ELSE IF utf8Valid(e.out)
        THEN [out |-> Quote(jsonEscape(e.out)), err |-> ErrNone, panic |-> PanicNone]
        ELSE [out |-> Quote(base64Encode(e.out)), err |-> ErrNone, panic |-> PanicNone]

\* (v EncryptedValueFactory[T]) MarshalJSON
MarshalJSONCall(reg, heap, T, v, nonce) ==
    LET g == getCrypterFor(reg, T)
        e == EncryptCall(heap[g.Crypter], v, nonce)
    IN  IF Len(v) = 0
        THEN [out |-> EmptyStringLiteral, err |-> ErrNone, panic |-> PanicNone]
        ELSE IF g.panic # PanicNone
        THEN [out |-> <<>>, err |-> ErrNone, panic |-> g.panic]
        ELSE IF e.panic # PanicNone
        THEN [out |-> <<>>, err |-> ErrNone, panic |-> e.panic]
        ELSE IF utf8Valid(e.out)
        THEN [out |-> Quote(jsonEscape(<<35>> \o e.out)),
              err |-> ErrNone, panic |-> PanicNone]
        ELSE [out |-> Quote(base64Encode(e.out)),
              err |-> ErrNone, panic |-> PanicNone]

\* var err error; *v, err = crypter.Decrypt(encData); return err
DecryptInto(crypter, encData) ==
    LET d == DecryptCall(crypter, encData)
    IN  [v |-> d.out, err |-> d.err, panic |-> PanicNone]

\* variant: the marker is looked for in the first byte, the opening quote
UnmarshalJSONCallFirstByte(reg, heap, T, data, dst) ==
    LET g == getCrypterFor(reg, T)
        us == jsonUnmarshalString(data)
        ub == jsonUnmarshalBytes(data)
    IN  IF data = EmptyStringLiteral \/ data = NullLiteral
        THEN [v |-> <<>>, err |-> ErrNone, panic |-> PanicNone]
        ELSE IF g.panic # PanicNone
        THEN [v |-> dst, err |-> ErrNone, panic |-> g.panic]
        ELSE IF Len(data) >= 2 /\ data[1] = 35
        THEN IF us.err # ErrNone
             THEN [v |-> dst, err |-> us.err, panic |-> PanicNone]
             ELSE IF us.s = <<>>
             THEN [v |-> dst, err |-> ErrNone, panic |-> PanicSliceBounds]
             ELSE DecryptInto(heap[g.Crypter], Tail(us.s))
        ELSE IF ub.err # ErrNone
        THEN [v |-> dst, err |-> ub.err, panic |-> PanicNone]
        ELSE DecryptInto(heap[g.Crypter], ub.b)

\* (v *EncryptedValueFactory[T]) UnmarshalJSON
UnmarshalJSONCall(reg, heap, T, data, dst) ==
    LET g == getCrypterFor(reg, T)
        us == jsonUnmarshalString(data)
        ub == jsonUnmarshalBytes(data)
    IN  IF data = EmptyStringLiteral \/ data = NullLiteral
        THEN [v |-> <<>>, err |-> ErrNone, panic |-> PanicNone]
        ELSE IF g.panic # PanicNone
        THEN [v |-> dst, err |-> ErrNone, panic |-> g.panic]
        ELSE IF Len(data) >= 2 /\ data[2] = 35
        THEN IF us.err # ErrNone
             THEN [v |-> dst, err |-> us.err, panic |-> PanicNone]
             ELSE IF us.s = <<>>
             THEN [v |-> dst, err |-> ErrNone, panic |-> PanicSliceBounds]
             ELSE DecryptInto(heap[g.Crypter], Tail(us.s))
        ELSE IF ub.err # ErrNone
        THEN [v |-> dst, err |-> ub.err, panic |-> PanicNone]
        ELSE DecryptInto(heap[g.Crypter], ub.b)

\* variant: an empty value written as NULL
ValueCallNull(reg, heap, T, v, nonce) ==
    LET g == getCrypterFor(reg, T)
        e == EncryptCall(heap[g.Crypter], v, nonce)
    IN  IF Len(v) = 0
        THEN [out |-> <<>>, outNil |-> TRUE, err |-> ErrNone, panic |-> PanicNone]
        ELSE IF g.panic # PanicNone
        THEN [out |-> <<>>, outNil |-> TRUE, err |-> ErrNone, panic |-> g.panic]
        ELSE IF e.panic # PanicNone
        THEN [out |-> <<>>, outNil |-> TRUE, err |-> ErrNone, panic |-> e.panic]
        ELSE [out |-> e.out, outNil |-> FALSE, err |-> e.err, panic |-> PanicNone]

\* (v EncryptedValueFactory[T]) Value: the driver.Value, a []byte
ValueCall(reg, heap, T, v, nonce) ==
    LET g == getCrypterFor(reg, T)
        e == EncryptCall(heap[g.Crypter], v, nonce)
    IN  IF Len(v) = 0
        THEN [out |-> <<>>, outNil |-> FALSE, err |-> ErrNone, panic |-> PanicNone]
        ELSE IF g.panic # PanicNone
        THEN [out |-> <<>>, outNil |-> TRUE, err |-> ErrNone, panic |-> g.panic]
        ELSE IF e.panic # PanicNone
        THEN [out |-> <<>>, outNil |-> TRUE, err |-> ErrNone, panic |-> e.panic]
        ELSE [out |-> e.out, outNil |-> FALSE, err |-> e.err, panic |-> PanicNone]

\* variant: a string is not taken for an envelope
ScanCallBytesOnly(reg, heap, T, argType, arg, dst) ==
    LET g == getCrypterFor(reg, T)
        d == DecryptCall(heap[g.Crypter], arg)
    IN  IF g.panic # PanicNone
        THEN [v |-> dst, err |-> ErrNone, panic |-> g.panic]
        ELSE IF argType = "nil"
        THEN [v |-> <<>>, err |-> ErrNone, panic |-> PanicNone]
        ELSE IF argType = "[]byte"
        THEN IF Len(arg) = 0
             THEN [v |-> <<>>, err |-> ErrNone, panic |-> PanicNone]
             ELSE IF d.err # ErrNone
             THEN [v |-> dst, err |-> d.err, panic |-> PanicNone]
             ELSE [v |-> d.out, err |-> ErrNone, panic |-> PanicNone]
        ELSE [v |-> dst, err |-> ErrScan, panic |-> PanicNone]

\* (v *EncryptedValueFactory[T]) Scan
ScanCall(reg, heap, T, argType, arg, dst) ==
    LET g == getCrypterFor(reg, T)
        d == DecryptCall(heap[g.Crypter], arg)
    IN  IF g.panic # PanicNone
        THEN [v |-> dst, err |-> ErrNone, panic |-> g.panic]
        ELSE IF argType = "nil"
        THEN [v |-> <<>>, err |-> ErrNone, panic |-> PanicNone]
        ELSE IF argType \in {"[]byte", "string"}
        THEN IF Len(arg) = 0
             THEN [v |-> <<>>, err |-> ErrNone, panic |-> PanicNone]
             ELSE IF d.err # ErrNone
             THEN [v |-> dst, err |-> d.err, panic |-> PanicNone]
             ELSE [v |-> d.out, err |-> ErrNone, panic |-> PanicNone]
        ELSE [v |-> dst, err |-> ErrScan, panic |-> PanicNone]

(***************************************************************************)
(* The streaming writers.  An engine writer (sio.EncryptWriter) keeps the  *)
(* plaintext not yet sealed in buffer and seals a package when more than a *)
(* full payload is at hand; Close seals what is left.  closeCalls counts   *)
(* the calls of its Close.                                                 *)
(***************************************************************************)
NoSio ==
    [key |-> <<>>, nonce |-> 0, buffer |-> <<>>, closed |-> FALSE, closeCalls |-> 0]

\* sio.EncryptWriter(w, sioConfig)
EngineWriterNew(key, nonce) == [NoSio EXCEPT !.key = key, !.nonce = nonce]

\* sioWriter.Write(p): the writer afterwards and the bytes it sends to w
RECURSIVE EngineWriterWrite(_, _)
EngineWriterWrite(sw, p) ==
    LET data == sw.buffer \o p
    IN  IF Len(data) <= MaxPayloadSize
        THEN [sw |-> [sw EXCEPT !.buffer = data], out |-> <<>>]
        ELSE LET rest == EngineWriterWrite(
                            [sw EXCEPT !.buffer = <<>>, !.nonce = @ + 1],
                            SubSeq(data, MaxPayloadSize + 1, Len(data)))
             IN  [sw |-> rest.sw,
                  out |-> EngineSealPackage(sw.key, sw.nonce,
                                            SubSeq(data, 1, MaxPayloadSize))
                             \o rest.out]

\* sioWriter.Close(): a second Close returns at once (sio v0.4.0)
EngineWriterClose(sw) ==
    IF sw.closed
    THEN [sw |-> [sw EXCEPT !.closeCalls = @ + 1], out |-> <<>>]
    ELSE [sw |-> [sw EXCEPT !.closed = TRUE, !.closeCalls = @ + 1, !.buffer = <<>>],
          out |-> IF sw.buffer = <<>> THEN <<>>
                  ELSE EngineSealPackage(sw.key, sw.nonce, sw.buffer)]

(***************************************************************************)
(* dynamicWriter, as EncryptWriter builds it.  WriteFunc and CloseFunc     *)
(* name the function each field holds: "first" is the closure              *)
(* EncryptWriter installs.  w is what the sink has received, sio the       *)
(* engine writer once there is one, nonce the nonce the engine will draw.  *)
(* Kept beside the fields: written, the bytes of all Write calls that      *)
(* returned, and pieces, how many of them were not empty; tags, how many times a tag byte was sent; closeCalls, the     *)
(* calls of Close; atMake and atFirst, the crypter as it was when          *)
(* EncryptWriter was called and at the first non-empty Write.              *)
(***************************************************************************)
NoWriter ==
    [made |-> FALSE, WriteFunc |-> "", CloseFunc |-> "", w |-> <<>>,
     sio |-> NoSio, nonce |-> 0, written |-> <<>>, pieces |-> 0, tags |-> 0,
     closeCalls |-> 0, atMake |-> ZeroCrypter, atFirst |-> ZeroCrypter]

\* s.EncryptWriter(w)
EncryptWriterCall(s, nonce) ==
    [NoWriter EXCEPT !.made = TRUE, !.WriteFunc = "first", !.CloseFunc = "first",
                     !.nonce = nonce, !.atMake = s]

\* w.Write / sioWriter.Write, whichever WriteFunc holds
ForwardWrite(ew, p) ==
    LET e == [ew EXCEPT !.written = @ \o p,
                        !.pieces = IF p = <<>> THEN @ ELSE @ + 1]
    IN  IF ew.WriteFunc = "w.Write"
        THEN [e EXCEPT !.w = @ \o p]
        ELSE LET r == EngineWriterWrite(ew.sio, p)
             IN  [e EXCEPT !.sio = r.sw, !.w = @ \o r.out]

\* variant: the bypass branch sends the tag and leaves WriteFunc as it was
WriteFuncCallNoSwitch(ew, s, p) ==
    IF ew.WriteFunc # "first"
    THEN [ew |-> ForwardWrite(ew, p), panic |-> PanicNone]
    ELSE IF Len(p) = 0
    THEN [ew |-> ew, panic |-> PanicNone]
    ELSE IF s.Bypass
    THEN [ew |-> [ew EXCEPT !.w = @ \o <<TagBypass>> \o p, !.written = @ \o p,
                            !.pieces = @ + 1, !.tags = @ + 1, !.atFirst = s],
          panic |-> PanicNone]
    ELSE LET head == [ew EXCEPT !.w = @ \o <<TagV1>> \o writeUint32(s.lastKeyID),
                                !.tags = @ + 1, !.atFirst = s]
         IN  IF ~HasKey(s, s.lastKeyID)
             THEN [ew |-> head, panic |-> PanicNoKeys]
             ELSE [ew |-> ForwardWrite(
                              [head EXCEPT
                                 !.sio = EngineWriterNew(EngineKey(s.keys[s.lastKeyID]),
                                                         ew.nonce),
                                 !.WriteFunc = "sioWriter.Write",
                                 !.CloseFunc = "sioWriter.Close"], p),
                   panic |-> PanicNone]

\* variant: without a key the bytes go to the sink as they are
WriteFuncCallNoKeyPlain(ew, s, p) ==
    IF ew.WriteFunc # "first"
    THEN [ew |-> ForwardWrite(ew, p), panic |-> PanicNone]
    ELSE IF Len(p) = 0
    THEN [ew |-> ew, panic |-> PanicNone]
    ELSE IF s.Bypass
    THEN [ew |-> ForwardWrite(
                     [ew EXCEPT !.w = @ \o <<TagBypass>>, !.tags = @ + 1,
                                !.atFirst = s, !.WriteFunc = "w.Write"], p),
          panic |-> PanicNone]
    ELSE LET head == [ew EXCEPT !.w = @ \o <<TagV1>> \o writeUint32(s.lastKeyID),
                                !.tags = @ + 1, !.atFirst = s]
         IN  IF ~HasKey(s, s.lastKeyID)
             THEN [ew |-> ForwardWrite([head EXCEPT !.WriteFunc = "w.Write"], p),
                   panic |-> PanicNone]
             ELSE [ew |-> ForwardWrite(
                              [head EXCEPT
                                 !.sio = EngineWriterNew(EngineKey(s.keys[s.lastKeyID]),
                                                         ew.nonce),
                                 !.WriteFunc = "sioWriter.Write",
                                 !.CloseFunc = "sioWriter.Close"], p),
                   panic |-> PanicNone]

\* ew.WriteFunc(p), s being the crypter the closure of EncryptWriter reads:
\* the writer afterwards and the panic raised
WriteFuncCall(ew, s, p) ==
    IF ew.WriteFunc # "first"
    THEN [ew |-> ForwardWrite(ew, p), panic |-> PanicNone]
    ELSE IF Len(p) = 0
    THEN [ew |-> ew, panic |-> PanicNone]
    ELSE IF s.Bypass
    THEN [ew |-> ForwardWrite(
                     [ew EXCEPT !.w = @ \o <<TagBypass>>, !.tags = @ + 1,
                                !.atFirst = s, !.WriteFunc = "w.Write"], p),
          panic |-> PanicNone]
    ELSE LET head == [ew EXCEPT !.w = @ \o <<TagV1>> \o writeUint32(s.lastKeyID),
                                !.tags = @ + 1, !.atFirst = s]
         IN  IF ~HasKey(s, s.lastKeyID)
             THEN [ew |-> head, panic |-> PanicNoKeys]
             ELSE [ew |-> ForwardWrite(
                              [head EXCEPT
                                 !.sio = EngineWriterNew(EngineKey(s.keys[s.lastKeyID]),
                                                         ew.nonce),
                                 !.WriteFunc = "sioWriter.Write",
                                 !.CloseFunc = "sioWriter.Close"], p),
                   panic |-> PanicNone]

\* variant: the mode and the key read from the crypter as EncryptWriter saw it
dynamicWriterWriteAtMake(ew, s, p) == WriteFuncCall(ew, ew.atMake, p)

\* (w *dynamicWriter) Write(p), s being the crypter as it is at the call
dynamicWriterWrite(ew, s, p) == WriteFuncCall(ew, s, p)

\* (w *dynamicWriter) Close()
dynamicWriterClose(ew) ==
    LET c == [ew EXCEPT !.closeCalls = @ + 1]
    IN  IF ew.CloseFunc = "nil" THEN c
        ELSE IF ew.CloseFunc = "first" THEN [c EXCEPT !.CloseFunc = "nil"]
        ELSE LET r == EngineWriterClose(ew.sio)
             IN  [c EXCEPT !.sio = r.sw, !.w = @ \o r.out]

(***************************************************************************)
(* State.  keys, lastKeyID, sioMinVersion and Bypass are the fields of the *)
(* crypter under study.  call is the last call made and what it returned; *)
(* a panic ends the program.  wire is the last envelope an Encrypt         *)
(* returned, with the plaintext and the key it was made from               *)
(* (encryptedText and text of runCrypterSubtests).  The envelope comes     *)
(* from the crypter itself or from a peer: a second MultiKeyCrypter built  *)
(* with one AddKey, as c1, c1bypass and c1broken of                        *)
(* TestMultikeyEncryptDecrypt.                                             *)
(***************************************************************************)
VARIABLES keys, lastKeyID, sioMinVersion, Bypass, call, wire,
          crypters, registered, vcall, stored, ew

vars == <<keys, lastKeyID, sioMinVersion, Bypass, call, wire,
          crypters, registered, vcall, stored, ew>>

\* the registry, the values that use it and the streaming writer
layers == <<crypters, registered, vcall, stored, ew>>

Self ==
    [keys |-> keys, lastKeyID |-> lastKeyID,
     sioMinVersion |-> sioMinVersion, Bypass |-> Bypass]

NoCall ==
    [op |-> "none", keyID |-> 0, data |-> <<>>, n |-> 0,
     out |-> <<>>, err |-> ErrNone, panic |-> PanicNone, engine |-> <<>>]

NoWire ==
    [set |-> FALSE, by |-> "", plain |-> <<>>, bypass |-> FALSE,
     keyID |-> 0, key |-> <<>>, env |-> <<>>]

\* the envelope s.Encrypt returned, with what it was made from; key is the
\* secret the engine was keyed with, <<>> when the engine was not used
Sent(by, s, data, env) ==
    LET engine == Len(data) > 0 /\ ~s.Bypass
    IN  [set |-> TRUE, by |-> by, plain |-> data, bypass |-> s.Bypass,
         keyID |-> IF engine THEN s.lastKeyID ELSE 0,
         key |-> IF engine THEN s.keys[s.lastKeyID] ELSE <<>>,
         env |-> env]

\* the peers: one key each, in normal mode, and c1bypass
Peers ==
    {[keyID |-> id, key |-> k, bypass |-> FALSE] : id \in KeyIDs, k \in GoodKeys}
        \cup {[keyID |-> 1, key |-> KeyA, bypass |-> TRUE]}

\* bytes an attacker on the wire may put in place of one byte
TamperBytes == {0, TagV1, TagBypass}

\* env, and env with one byte replaced
Received(env) ==
    {env} \cup {[env EXCEPT ![i] = b] : i \in 1..Len(env), b \in TamperBytes}

\* the last call on the registry or on an EncryptedValue: the hook, the kind
\* T of the value, the argument (for Scan with the Go type it arrives as),
\* and what came back: bytes (nil or not), the error, the panic, and for
\* getCrypterFor the crypter returned; for UnmarshalJSON and Scan, dst is what
\* the receiver held before the call and out what it holds after it
NoVCall ==
    [op |-> "none", kind |-> "", argType |-> "", arg |-> <<>>, dst |-> <<>>,
     out |-> <<>>, outNil |-> TRUE, err |-> ErrNone, panic |-> PanicNone,
     crypter |-> ""]

\* what the last MarshalJSON or Value returned, with the value and the kind
\* it was made from (enc and orig of runValueSubtestsJSON / SQL)
NoStored ==
    [set |-> FALSE, form |-> "", kind |-> "", plain |-> <<>>, data |-> <<>>]

Running == call.panic = PanicNone /\ vcall.panic = PanicNone

Init ==
    /\ keys = ZeroCrypter.keys
    /\ lastKeyID = ZeroCrypter.lastKeyID
    /\ sioMinVersion = ZeroCrypter.sioMinVersion
    /\ Bypass = ZeroCrypter.Bypass
    /\ call = NoCall
    /\ wire = NoWire
    /\ crypters = <<>>
    /\ registered = <<>>
    /\ vcall = NoVCall
    /\ stored = NoStored
    /\ ew = NoWriter

AddKey(keyID, key) ==
    LET r == AddKeyCall(Self, keyID, key)
    IN  /\ Running
        /\ keys' = r.s.keys
        /\ lastKeyID' = r.s.lastKeyID
        /\ sioMinVersion' = r.s.sioMinVersion
        /\ call' = [NoCall EXCEPT !.op = "AddKey", !.keyID = keyID,
                                  !.data = key, !.panic = r.panic]
        /\ UNCHANGED <<Bypass, wire>>
        /\ UNCHANGED layers

\* c.Bypass = b
SetBypass(b) ==
    /\ Running
    /\ Bypass # b
    /\ Bypass' = b
    /\ call' = [NoCall EXCEPT !.op = "SetBypass"]
    /\ UNCHANGED <<keys, lastKeyID, sioMinVersion, wire>>
    /\ UNCHANGED layers

Encrypt(data, nonce) ==
    LET r == EncryptCall(Self, data, nonce)
    IN  /\ Running
        /\ call' = [NoCall EXCEPT !.op = "Encrypt", !.data = data,
                                  !.out = r.out, !.err = r.err, !.panic = r.panic]
        /\ wire' = IF r.panic # PanicNone THEN wire
                   ELSE Sent("self", Self, data, r.out)
        /\ UNCHANGED <<keys, lastKeyID, sioMinVersion, Bypass>>
        /\ UNCHANGED layers

\* peer := MultiKeyCrypter{}; peer.AddKey(keyID, key); peer.Bypass = bypass;
\* peer.Encrypt(data)
PeerEncrypt(keyID, key, bypass, data, nonce) ==
    LET peer == [AddKeyCall(ZeroCrypter, keyID, key).s EXCEPT !.Bypass = bypass]
        r == EncryptCall(peer, data, nonce)
    IN  /\ Running
        /\ call' = [NoCall EXCEPT !.op = "PeerEncrypt"]
        /\ wire' = Sent("peer", peer, data, r.out)
        /\ UNCHANGED <<keys, lastKeyID, sioMinVersion, Bypass>>
        /\ UNCHANGED layers

EncryptedSize(dataSize) ==
    /\ Running
    /\ call' = [NoCall EXCEPT !.op = "EncryptedSize", !.n = dataSize,
                              !.out = <<EncryptedSizeCall(Self, dataSize)>>]
    /\ UNCHANGED <<keys, lastKeyID, sioMinVersion, Bypass, wire>>
    /\ UNCHANGED layers

\* Decrypt of what arrives: the envelope on the wire, intact or tampered
Decrypt(data) ==
    LET r == DecryptCall(Self, data)
    IN  /\ Running
        /\ wire.set
        /\ call' = [NoCall EXCEPT !.op = "Decrypt", !.data = data,
                                  !.out = r.out, !.err = r.err]
        /\ UNCHANGED <<keys, lastKeyID, sioMinVersion, Bypass, wire>>
        /\ UNCHANGED layers

Next ==
    \/ \E keyID \in KeyIDs, key \in Secrets : AddKey(keyID, key)
    \/ \E b \in BOOLEAN : SetBypass(b)
    \/ \E data \in Plaintexts, nonce \in Nonces : Encrypt(data, nonce)
    \/ \E peer \in Peers, data \in Plaintexts, nonce \in Nonces :
          PeerEncrypt(peer.keyID, peer.key, peer.bypass, data, nonce)
    \/ \E n \in 0..MaxLen : EncryptedSize(n)
    \/ Decrypt(wire.env)

Spec == Init /\ [][Next]_vars

(***************************************************************************)
(* The same crypter with an attacker on the wire: what Decrypt is given is *)
(* the envelope the crypter made, intact or with one byte replaced.        *)
(***************************************************************************)
NextTamper ==
    \/ \E keyID \in KeyIDs, key \in GoodKeys : AddKey(keyID, key)
    \/ \E data \in Plaintexts, nonce \in Nonces : Encrypt(data, nonce)
    \/ \E data \in Received(wire.env) : Decrypt(data)

SpecTamper == Init /\ [][NextTamper]_vars

(***************************************************************************)
(* The crypter reading streams of any origin: DecryptReader is given what  *)
(* a reader may hold, well formed or not.                                  *)
(***************************************************************************)
\* what may follow a key id: nothing, a byte no engine wrote, and what the
\* engine writes under KeyA and under KeyB
Payloads ==
    {<<>>, <<9>>}
        \cup {EngineEncrypt(EngineKey(k), 0, p) :
                 k \in {KeyA, KeyB}, p \in Plaintexts \ {<<>>}}

\* the streams: an empty one, a lone tag, a key id cut short, every tag
\* (0 and 2 are no tags of the format) before a key id and a payload, and
\* bypass envelopes of the texts
Envelopes ==
    {<<>>, <<TagV1>>, <<TagV1, 1, 0>>}
        \cup {<<t>> \o writeUint32(id) \o c :
                 t \in {0, TagV1, 2, TagBypass}, id \in KeyIDs, c \in Payloads}
        \cup {<<TagBypass>> \o p : p \in Plaintexts}

\* r, err := s.DecryptReader(bytes.NewReader(data)); io.Copy(&buf, r)
DecryptReader(data) ==
    LET r == DecryptReaderCall(Self, data)
    IN  /\ Running
        /\ call' = [NoCall EXCEPT !.op = "DecryptReader", !.data = data,
                                  !.out = r.out, !.err = r.err,
                                  !.engine = r.engine]
        /\ UNCHANGED <<keys, lastKeyID, sioMinVersion, Bypass, wire>>
        /\ UNCHANGED layers

NextDecrypt ==
    \/ \E keyID \in KeyIDs, key \in {KeyA, KeyB} : AddKey(keyID, key)
    \/ \E b \in BOOLEAN : SetBypass(b)
    \/ \E data \in Envelopes : DecryptReader(data)

SpecDecrypt == Init /\ [][NextDecrypt]_vars

(***************************************************************************)
(* The registry alone: kinds are registered and resolved.  registered      *)
(* keeps, in order, the type argument of every RegisterCrypterFor that     *)
(* returned; the code keeps only Zero.                                     *)
(***************************************************************************)
RegisterCrypterFor(T, c) ==
    LET r == RegisterCall(crypters, T, c)
    IN  /\ Running
        /\ Len(crypters) < MaxEntries
        /\ crypters' = r.crypters
        /\ registered' = IF r.panic = PanicNone THEN Append(registered, T)
                          ELSE registered
        /\ vcall' = [NoVCall EXCEPT !.op = "RegisterCrypterFor", !.kind = T,
                                    !.crypter = c, !.panic = r.panic]
        /\ UNCHANGED <<keys, lastKeyID, sioMinVersion, Bypass, call, wire, stored, ew>>

GetCrypterFor(T) ==
    LET r == getCrypterFor(crypters, T)
    IN  /\ Running
        /\ vcall' = [NoVCall EXCEPT !.op = "getCrypterFor", !.kind = T,
                                    !.crypter = r.Crypter, !.panic = r.panic]
        /\ UNCHANGED <<keys, lastKeyID, sioMinVersion, Bypass, call, wire,
                       crypters, registered, stored, ew>>

NextRegistry ==
    \/ \E T \in Kinds, c \in CrypterRefs : RegisterCrypterFor(T, c)
    \/ \E T \in Kinds : GetCrypterFor(T)

SpecRegistry == Init /\ [][NextRegistry]_vars

(***************************************************************************)
(* EncryptedValue over the registry, as TestEncryptedValue sets it up:     *)
(* &c1 is the crypter under study (keys, lastKeyID, ...), &c2 a crypter    *)
(* with key 1 in bypass mode.  stored is the last literal MarshalJSON      *)
(* returned or the last driver.Value that Value returned.                  *)
(***************************************************************************)
\* c2 := MultiKeyCrypter{}; c2.AddKey(0x1, ...); c2.Bypass = true
C2Crypter == [AddKeyCall(ZeroCrypter, 1, KeyA).s EXCEPT !.Bypass = TRUE]

Heap == [c \in CrypterRefs |-> IF c = "c1" THEN Self ELSE C2Crypter]

\* dummy1 and dummy2 of TestEncryptedValue
ValueKinds == {"dummy1", "dummy2"}

\* the texts, and a value that is not valid UTF-8
Values == Plaintexts \cup {<<200>>}

\* literals a JSON document may hold in place of a marshalled value:
\* "", null, "#", "##H", "#H", "#H without its closing quote, "I0g=" (the
\* base64 of #H), "!!!!", [35,72] and 7
JSONLiterals ==
    {EmptyStringLiteral, NullLiteral,
     <<34, 35, 34>>,
     <<34, 35, 35, 72, 34>>,
     <<34, 35, 72, 34>>,
     <<34, 35, 72>>,
     <<34, 73, 48, 103, 61, 34>>,
     <<34, 33, 33, 33, 33, 34>>,
     <<91, 51, 53, 44, 55, 50, 93>>,
     <<55>>}

\* what a driver may hand to Scan besides a stored value: NULL, empty and
\* non-empty []byte and string ("#H"), and an int64
ScanInputs ==
    {[type |-> "nil", val |-> <<>>],
     [type |-> "[]byte", val |-> <<>>],
     [type |-> "[]byte", val |-> <<35, 72>>],
     [type |-> "string", val |-> <<>>],
     [type |-> "string", val |-> <<35, 72>>],
     [type |-> "string", val |-> <<72>>],
     [type |-> "int64", val |-> <<7>>]}

Store(form, T, v, data) ==
    [set |-> TRUE, form |-> form, kind |-> T, plain |-> v, data |-> data]

MarshalJSON(T, v, nonce) ==
    LET r == MarshalJSONCall(crypters, Heap, T, v, nonce)
    IN  /\ Running
        /\ vcall' = [NoVCall EXCEPT !.op = "MarshalJSON", !.kind = T, !.arg = v,
                                    !.out = r.out, !.outNil = FALSE,
                                    !.err = r.err, !.panic = r.panic]
        /\ stored' = IF r.panic = PanicNone /\ r.err = ErrNone
                     THEN Store("json", T, v, r.out) ELSE stored
        /\ UNCHANGED <<keys, lastKeyID, sioMinVersion, Bypass, call, wire,
                       crypters, registered, ew>>

\* var dec F; dec.UnmarshalJSON(data)
UnmarshalJSON(T, data) ==
    LET r == UnmarshalJSONCall(crypters, Heap, T, data, <<>>)
    IN  /\ Running
        /\ vcall' = [NoVCall EXCEPT !.op = "UnmarshalJSON", !.kind = T,
                                    !.arg = data, !.out = r.v,
                                    !.err = r.err, !.panic = r.panic]
        /\ UNCHANGED <<keys, lastKeyID, sioMinVersion, Bypass, call, wire,
                       crypters, registered, stored, ew>>

Value(T, v, nonce) ==
    LET r == ValueCall(crypters, Heap, T, v, nonce)
    IN  /\ Running
        /\ vcall' = [NoVCall EXCEPT !.op = "Value", !.kind = T, !.arg = v,
                                    !.out = r.out, !.outNil = r.outNil,
                                    !.err = r.err, !.panic = r.panic]
        /\ stored' = IF r.panic = PanicNone /\ r.err = ErrNone
                     THEN Store("sql", T, v, r.out) ELSE stored
        /\ UNCHANGED <<keys, lastKeyID, sioMinVersion, Bypass, call, wire,
                       crypters, registered, ew>>

\* var dec F; dec.Scan(value)
Scan(T, argType, arg) ==
    LET r == ScanCall(crypters, Heap, T, argType, arg, <<>>)
    IN  /\ Running
        /\ vcall' = [NoVCall EXCEPT !.op = "Scan", !.kind = T,
                                    !.argType = argType, !.arg = arg,
                                    !.out = r.v, !.err = r.err, !.panic = r.panic]
        /\ UNCHANGED <<keys, lastKeyID, sioMinVersion, Bypass, call, wire,
                       crypters, registered, stored, ew>>

\* keys are added and kinds registered during setup, before any hook runs
Setup == vcall.op \in {"none", "RegisterCrypterFor"} /\ ~stored.set

\* a hook reads the registry, the crypter and its argument only: literals
\* and driver values from outside are tried while nothing is stored, and
\* what is stored is read back by the hook of its form
NextValue ==
    \/ \E key \in {KeyA, KeyB} : Setup /\ AddKey(1, key)
    \/ \E T \in ValueKinds, c \in CrypterRefs : Setup /\ RegisterCrypterFor(T, c)
    \/ \E T \in ValueKinds, v \in Values, nonce \in Nonces : MarshalJSON(T, v, nonce)
    \/ \E T \in ValueKinds, data \in JSONLiterals :
          ~stored.set /\ UnmarshalJSON(T, data)
    \/ stored.form = "json" /\ UnmarshalJSON(stored.kind, stored.data)
    \/ \E T \in ValueKinds, v \in Values, nonce \in Nonces : Value(T, v, nonce)
    \/ \E T \in ValueKinds, in \in ScanInputs :
          ~stored.set /\ Scan(T, in.type, in.val)
    \/ stored.form = "sql" /\ Scan(stored.kind, "[]byte", stored.data)

SpecValue == Init /\ [][NextValue]_vars

(***************************************************************************)
(* UnmarshalJSON and Scan called on a value that already holds bytes, with *)
(* literals and driver values that Decrypt turns down among the inputs.    *)
(***************************************************************************)
\* envelopes Decrypt may turn down: a tag that is none, the id of a key that
\* c1 and c2 never get, and a payload no engine wrote under key 1
BadEnvelopes ==
    {<<0>>,
     <<TagV1>> \o writeUint32(257),
     <<TagV1>> \o writeUint32(1) \o <<9>>}

\* JSONLiterals, and the base64 literals of BadEnvelopes
ReceiverLiterals == JSONLiterals \cup {Quote(base64Encode(e)) : e \in BadEnvelopes}

\* ScanInputs, and BadEnvelopes as []byte
ReceiverInputs == ScanInputs \cup {[type |-> "[]byte", val |-> e] : e \in BadEnvelopes}

\* dec := F(dst); dec.UnmarshalJSON(data)
UnmarshalJSONInto(T, data, dst) ==
    LET r == UnmarshalJSONCall(crypters, Heap, T, data, dst)
    IN  /\ Running
        /\ vcall' = [NoVCall EXCEPT !.op = "UnmarshalJSON", !.kind = T,
                                    !.arg = data, !.dst = dst, !.out = r.v,
                                    !.err = r.err, !.panic = r.panic]
        /\ UNCHANGED <<keys, lastKeyID, sioMinVersion, Bypass, call, wire,
                       crypters, registered, stored, ew>>

\* dec := F(dst); dec.Scan(value)
ScanInto(T, argType, arg, dst) ==
    LET r == ScanCall(crypters, Heap, T, argType, arg, dst)
    IN  /\ Running
        /\ vcall' = [NoVCall EXCEPT !.op = "Scan", !.kind = T,
                                    !.argType = argType, !.arg = arg,
                                    !.dst = dst, !.out = r.v,
                                    !.err = r.err, !.panic = r.panic]
        /\ UNCHANGED <<keys, lastKeyID, sioMinVersion, Bypass, call, wire,
                       crypters, registered, stored, ew>>

\* the two hooks change nothing but the receiver, which each call sets up
\* anew: one call after the setup shows all a call can do
NextReceiver ==
    \/ \E key \in {KeyA, KeyB} : Setup /\ AddKey(1, key)
    \/ \E T \in ValueKinds, c \in CrypterRefs : Setup /\ RegisterCrypterFor(T, c)
    \/ \E T \in ValueKinds, data \in ReceiverLiterals, dst \in Values :
          Setup /\ UnmarshalJSONInto(T, data, dst)
    \/ \E T \in ValueKinds, in \in ReceiverInputs, dst \in Values :
          Setup /\ ScanInto(T, in.type, in.val, dst)

SpecReceiver == Init /\ [][NextReceiver]_vars

(***************************************************************************)
(* One streaming writer of the crypter: EncryptWriter, then Write calls    *)
(* that hand over Text piece by piece (pieces of any length, zero          *)
(* included), then Close calls; AddKey and assignments to Bypass may come  *)
(* at any point in between.                                                *)
(***************************************************************************)
EncryptWriter(nonce) ==
    /\ Running
    /\ ~ew.made
    /\ ew' = EncryptWriterCall(Self, nonce)
    /\ call' = [NoCall EXCEPT !.op = "EncryptWriter"]
    /\ UNCHANGED <<keys, lastKeyID, sioMinVersion, Bypass, wire,
                   crypters, registered, vcall, stored>>

\* w.Write(p), p being the next n bytes of Text
Write(n) ==
    LET from == Len(ew.written)
        p == SubSeq(Text, from + 1, from + n)
        r == dynamicWriterWrite(ew, Self, p)
    IN  /\ Running
        /\ ew.made
        /\ ew.closeCalls = 0
        /\ from + n <= MaxLen
        /\ ew' = r.ew
        /\ call' = [NoCall EXCEPT !.op = "Write", !.data = p, !.panic = r.panic]
        /\ UNCHANGED <<keys, lastKeyID, sioMinVersion, Bypass, wire,
                       crypters, registered, vcall, stored>>

\* w.Close()
Close ==
    /\ Running
    /\ ew.made
    /\ ew.closeCalls < MaxCloses
    /\ ew' = dynamicWriterClose(ew)
    /\ call' = [NoCall EXCEPT !.op = "Close"]
    /\ UNCHANGED <<keys, lastKeyID, sioMinVersion, Bypass, wire,
                   crypters, registered, vcall, stored>>

NextWriter ==
    \/ \E keyID \in KeyIDs, key \in {KeyA, KeyB} : AddKey(keyID, key)
    \/ \E b \in BOOLEAN : SetBypass(b)
    \/ \E nonce \in Nonces : EncryptWriter(nonce)
    \/ \E n \in 0..MaxLen : Write(n)
    \/ Close

SpecWriter == Init /\ [][NextWriter]_vars

(***************************************************************************)
(* A crypter from its construction, before and after its first key: it     *)
(* encrypts whole texts and through one streaming writer.                  *)
(***************************************************************************)
NextNoKey ==
    \/ \E key \in {KeyA, KeyB} : AddKey(1, key)
    \/ \E b \in BOOLEAN : SetBypass(b)
    \/ \E data \in Plaintexts, nonce \in Nonces : Encrypt(data, nonce)
    \/ \E nonce \in Nonces : EncryptWriter(nonce)
    \/ \E n \in 0..MaxLen : Write(n)
    \/ Close

SpecNoKey == Init /\ [][NextNoKey]_vars

(***************************************************************************)
(* Properties.                                                             *)
(***************************************************************************)
Succeeded == call.panic = PanicNone /\ call.err = ErrNone

\* C1: round trip.  Whatever the crypter encrypted (any plaintext, the empty
\* one included, in normal or bypass mode), the crypter decrypts without an
\* error to exactly that plaintext.
C1_RoundTrip ==
    (call.op = "Decrypt" /\ wire.by = "self")
        => (call.err = ErrNone /\ call.out = wire.plain)

\* a normal-mode envelope of the longest plaintext, made under a held key,
\* was decrypted by the crypter that made it
C1_Witness ==
    /\ call.op = "Decrypt"
    /\ wire.by = "self"
    /\ ~wire.bypass
    /\ keys # NoKeys
    /\ Len(wire.plain) = MaxLen
    /\ call.out = wire.plain

\* what the claim says EncryptedSize is
SizeFormula(bypass, n) ==
    IF n = 0 THEN 0
    ELSE IF bypass THEN n + 1
    ELSE EngineEncryptedSize(n) + 5

\* C6: size contract.  Every envelope Encrypt returns is exactly as long as
\* EncryptedSize predicts for the plaintext's length, and EncryptedSize(n)
\* is 0 for n = 0, n + 1 in bypass mode and the engine's size + 5 otherwise.
C6_SizeContract ==
    /\ (call.op = "Encrypt" /\ call.panic = PanicNone)
          => /\ Len(call.out) = SizeFormula(Bypass, Len(call.data))
             /\ Len(call.out) = EncryptedSizeCall(Self, Len(call.data))
    /\ call.op = "EncryptedSize" => call.out = <<SizeFormula(Bypass, call.n)>>

\* a normal-mode Encrypt of the longest plaintext returned an envelope of
\* more than one engine package
C6_Witness ==
    /\ call.op = "Encrypt"
    /\ call.panic = PanicNone
    /\ ~Bypass
    /\ Len(call.data) = MaxLen
    /\ Len(call.data) > MaxPayloadSize
    /\ Len(call.out) = EngineEncryptedSize(MaxLen) + 5

\* C7: the empty value.  Encrypt of the empty sequence returns the
\* zero-length envelope and Decrypt of the zero-length envelope returns the
\* empty value, with no error and no panic, in either mode and whatever keys
\* the crypter holds.
C7_EmptyValue ==
    /\ (call.op = "Encrypt" /\ call.data = <<>>)
          => (call.out = <<>> /\ Succeeded)
    /\ (call.op = "Decrypt" /\ call.data = <<>>)
          => (call.out = <<>> /\ Succeeded)
    /\ \A b \in BOOLEAN, nonce \in Nonces :
          LET s == [Self EXCEPT !.Bypass = b]
          IN  /\ EncryptCall(s, <<>>, nonce)
                    = [out |-> <<>>, err |-> ErrNone, panic |-> PanicNone]
              /\ DecryptCall(s, <<>>) = [out |-> <<>>, err |-> ErrNone]

\* a crypter with no key at all, in normal mode, decrypted the zero-length
\* envelope it had made from the empty value
C7_Witness ==
    /\ call.op = "Decrypt"
    /\ call.data = <<>>
    /\ wire.by = "self"
    /\ wire.plain = <<>>
    /\ keys = NoKeys
    /\ ~Bypass
    /\ call.out = <<>>

\* C8: bypass output.  In bypass mode Encrypt of a non-empty plaintext
\* returns the byte '#' followed by the plaintext, with no error and no
\* panic, whether or not any key was added.
C8_BypassOutput ==
    (call.op = "Encrypt" /\ Bypass /\ Len(call.data) > 0)
        => (Succeeded /\ call.out = <<35>> \o call.data)

\* a bypass-mode crypter that never got a key encrypted the longest plaintext
C8_Witness ==
    /\ call.op = "Encrypt"
    /\ Bypass
    /\ keys = NoKeys
    /\ sioMinVersion = 0
    /\ Len(call.data) = MaxLen
    /\ call.out = <<35>> \o call.data

\* C2: tamper detection, as claimed.  When what Decrypt is given is a
\* normal-mode envelope of a non-empty plaintext with one byte replaced by
\* a different value, Decrypt returns an error.
C2_TamperDetected ==
    (/\ call.op = "Decrypt"
     /\ wire.by = "self"
     /\ ~wire.bypass
     /\ Len(wire.plain) > 0
     /\ call.data # wire.env)
        => call.err # ErrNone

\* the crypter holds the key an envelope was made under: the id, and a
\* secret with the same first 32 bytes
HoldsMatching(w) ==
    /\ w.keyID \in DOMAIN keys
    /\ SubSeq(keys[w.keyID], 1, 32) = SubSeq(w.key, 1, 32)

\* a crypter holding one key only was given a normal-mode envelope of a
\* non-empty plaintext that a peer made under a key the crypter does not hold
CrossKeyCase ==
    /\ call.op = "Decrypt"
    /\ wire.by = "peer"
    /\ ~wire.bypass
    /\ Len(wire.plain) > 0
    /\ Cardinality(DOMAIN keys) = 1
    /\ ~(wire.keyID \in DOMAIN keys /\ keys[wire.keyID] = wire.key)

\* C3 as claimed: Decrypt fails with the unknown-key error when the ids
\* differ and with the engine's error when the id is the same and the secret
\* differs.
C3_CrossKeyAsClaimed ==
    CrossKeyCase
        => call.err = (IF wire.keyID \in DOMAIN keys THEN ErrEngine ELSE ErrUnknownKey)

\* C3, amended: Decrypt fails with the unknown-key error when the ids differ
\* and with the engine's error when the id is the same and the secrets differ
\* within their first 32 bytes; when they differ only after byte 32 it
\* succeeds with the original plaintext.  It never succeeds with anything
\* but the original plaintext.
C3_CrossKey ==
    CrossKeyCase
        => /\ wire.keyID \notin DOMAIN keys => call.err = ErrUnknownKey
           /\ (wire.keyID \in DOMAIN keys /\ ~HoldsMatching(wire))
                 => call.err = ErrEngine
           /\ HoldsMatching(wire) => call.err = ErrNone
           /\ call.err = ErrNone => call.out = wire.plain

\* a crypter holding one key was given an envelope made under the same id
\* with a secret that differs in its first 32 bytes, and the engine refused
C3_Witness ==
    /\ CrossKeyCase
    /\ wire.keyID \in DOMAIN keys
    /\ ~HoldsMatching(wire)
    /\ call.err = ErrEngine

\* the shape of what a successful Encrypt of a non-empty plaintext returns
C4_EncryptShape ==
    (call.op = "Encrypt" /\ call.panic = PanicNone /\ Len(call.data) > 0)
        => IF Bypass
           THEN call.out[1] # 1 /\ Tail(call.out) = call.data
           ELSE /\ Len(call.out) > 5
                /\ call.out[1] = 1
                /\ call.out[2] = lastKeyID % 256
                /\ call.out[3] = (lastKeyID \div 256) % 256
                /\ call.out[4] = (lastKeyID \div 65536) % 256
                /\ call.out[5] = (lastKeyID \div 16777216) % 256
                /\ lastKeyID \in DOMAIN keys
                /\ \E nonce \in Nonces :
                      SubSeq(call.out, 6, Len(call.out))
                          = EngineEncrypt(SubSeq(keys[lastKeyID], 1, 32), nonce, call.data)

\* lastKeyID changes only in a successful AddKey, to the id added
C4_LastAdded ==
    (lastKeyID' # lastKeyID \/ (call' # call /\ call'.op = "AddKey" /\ call'.panic = PanicNone))
        => (/\ call'.op = "AddKey"
            /\ call'.panic = PanicNone
            /\ lastKeyID' = call'.keyID)

\* C4: the envelope.  A normal-mode Encrypt of a non-empty plaintext returns
\* byte 0x01, the little-endian uint32 id of the current key, and the engine
\* ciphertext under the first 32 bytes of that key; a bypass-mode envelope
\* carries no key id (tag other than 0x01, then the plaintext).  The current
\* key is the one most recently added: lastKeyID changes only in a
\* successful AddKey, which sets it to the id added.
C4_Envelope == []C4_EncryptShape /\ [][C4_LastAdded]_vars

\* after two AddKey calls, a normal-mode Encrypt returned an envelope that
\* names key 257, the second one added
C4_Witness ==
    /\ call.op = "Encrypt"
    /\ call.panic = PanicNone
    /\ ~Bypass
    /\ Len(call.data) > 0
    /\ Cardinality(DOMAIN keys) = 2
    /\ lastKeyID = 257
    /\ SubSeq(call.out, 1, 5) = <<1, 1, 1, 0, 0>>

SelfNext ==
    [keys |-> keys', lastKeyID |-> lastKeyID',
     sioMinVersion |-> sioMinVersion', Bypass |-> Bypass']

C5_KeysKept ==
    /\ \A id \in DOMAIN keys : id \in DOMAIN keys' /\ keys'[id] = keys[id]
    /\ (wire.set /\ SelfNext # Self /\ DecryptCall(Self, wire.env).err = ErrNone)
          => DecryptCall(SelfNext, wire.env) = DecryptCall(Self, wire.env)

C5_DecryptsPeers ==
    (call.op = "Decrypt" /\ wire.by = "peer" /\ HoldsMatching(wire))
        => (call.err = ErrNone /\ call.out = wire.plain)

\* C5: rotation.  No step removes or alters a key, and an envelope the
\* crypter decrypts stays decryptable, to the same bytes, after any step; a
\* crypter decrypts what a one-key peer made under any key the crypter
\* holds, whether that key is its current one or an older one.
C5_Rotation == []C5_DecryptsPeers /\ [][C5_KeysKept]_vars

\* a crypter holding two keys decrypted an envelope that a one-key peer made
\* under the older of the two
C5_Witness ==
    /\ call.op = "Decrypt"
    /\ wire.by = "peer"
    /\ ~wire.bypass
    /\ Len(wire.plain) > 0
    /\ Cardinality(DOMAIN keys) = 2
    /\ wire.keyID # lastKeyID
    /\ keys[wire.keyID] = wire.key
    /\ call.err = ErrNone
    /\ call.out = wire.plain

\* C9: bypass interop.  What Decrypt returns does not depend on the
\* crypter's Bypass flag.  A bypass envelope is decrypted to its plaintext
\* by any crypter; a normal-mode envelope of a non-empty plaintext is
\* decrypted to its plaintext by a bypass-mode crypter holding the matching
\* key and refused by one that does not hold it.
C9_BypassInterop ==
    /\ wire.set
          => DecryptCall([Self EXCEPT !.Bypass = ~Bypass], wire.env)
                = DecryptCall(Self, wire.env)
    /\ (call.op = "Decrypt" /\ wire.bypass)
          => (call.err = ErrNone /\ call.out = wire.plain)
    /\ (call.op = "Decrypt" /\ ~wire.bypass /\ Len(wire.plain) > 0 /\ Bypass)
          => IF HoldsMatching(wire)
             THEN call.err = ErrNone /\ call.out = wire.plain
             ELSE call.err # ErrNone

\* a bypass-mode crypter decrypted a normal-mode envelope made by a peer
\* under a key it holds
C9_Witness ==
    /\ call.op = "Decrypt"
    /\ Bypass
    /\ wire.by = "peer"
    /\ ~wire.bypass
    /\ Len(wire.plain) > 0
    /\ HoldsMatching(wire)
    /\ call.out = wire.plain

C10_AddKeyStep ==
    (call' # call /\ call'.op = "AddKey")
        => LET keyID == call'.keyID
               key == call'.data
           IN  /\ Len(key) < 32 => call'.panic = PanicShortKey
               /\ (Len(key) >= 32 /\ keyID \in DOMAIN keys)
                     => call'.panic = PanicDuplicateKey
               /\ (Len(key) >= 32 /\ keyID \notin DOMAIN keys)
                     => call'.panic = PanicNone
               /\ call'.panic # PanicNone
                     => (keys' = keys /\ lastKeyID' = lastKeyID)
               /\ call'.panic = PanicNone
                     => /\ DOMAIN keys' = DOMAIN keys \cup {keyID}
                        /\ keys'[keyID] = key
                        /\ \A id \in DOMAIN keys : keys'[id] = keys[id]
                        /\ lastKeyID' = keyID

C10_CurrentPresent == keys # NoKeys => lastKeyID \in DOMAIN keys

\* C10: AddKey.  It panics for a secret shorter than 32 bytes and, for a
\* secret long enough, for an id already present; a failed AddKey leaves the
\* keys and the current id as they were; a successful one stores the key
\* and makes it current; once a key is held the current id names a held key.
C10_AddKey == []C10_CurrentPresent /\ [][C10_AddKeyStep]_vars

\* AddKey of a held id with another secret panicked on a ring of two keys,
\* whose key under that id is still the old one
C10_Witness ==
    /\ call.op = "AddKey"
    /\ call.panic = PanicDuplicateKey
    /\ Cardinality(DOMAIN keys) = 2
    /\ call.keyID # lastKeyID
    /\ keys[call.keyID] # call.data

(***************************************************************************)
(* Properties of the registry.                                             *)
(***************************************************************************)
\* the places of kind T among the successful registrations
EntriesOf(T) == {i \in 1..Len(registered) : registered[i] = T}

\* C11: one entry per kind.  After any sequence of RegisterCrypterFor calls
\* no kind has two entries: a call for a kind that already has an entry
\* panics and adds nothing, so every entry of the registry comes from a
\* call for a kind that had none.
C11_OneEntryPerKind ==
    /\ Len(crypters) = Len(registered)
    /\ \A T \in Kinds : Cardinality(EntriesOf(T)) <= 1

\* C12: resolve.  getCrypterFor[T] returns the crypter that the successful
\* RegisterCrypterFor[T] was given, whatever else is registered, and panics
\* with the no-crypter message when no call for T succeeded.
C12_Resolve ==
    vcall.op = "getCrypterFor"
        => IF EntriesOf(vcall.kind) = {}
           THEN vcall.panic = PanicNoCrypter
           ELSE /\ vcall.panic = PanicNone
                /\ \E i \in EntriesOf(vcall.kind) :
                      vcall.crypter = crypters[i].Crypter

(***************************************************************************)
(* Properties of EncryptedValue.                                           *)
(***************************************************************************)
\* the kind resolves to a crypter
Bound(T) == getCrypterFor(crypters, T).panic = PanicNone

\* the crypter a bound kind resolves to
CrypterOf(T) == Heap[getCrypterFor(crypters, T).Crypter]

\* the last call read back what the last MarshalJSON / Value returned, for
\* a value of the same kind
ReadBack(op, form) ==
    /\ vcall.op = op
    /\ stored.form = form
    /\ vcall.kind = stored.kind
    /\ vcall.arg = stored.data

\* C13: JSON round trip.  UnmarshalJSON of the literal MarshalJSON returned
\* for a value v succeeds and gives v, for the empty value and any other, in
\* normal and in bypass mode.
C13_JSONRoundTrip ==
    ReadBack("UnmarshalJSON", "json")
        => /\ vcall.panic = PanicNone
           /\ vcall.err = ErrNone
           /\ vcall.out = stored.plain

\* a value whose normal-mode ciphertext is not valid UTF-8 came back from
\* its base64 literal
C13_Witness ==
    /\ ReadBack("UnmarshalJSON", "json")
    /\ Len(stored.plain) > 0
    /\ ~CrypterOf(stored.kind).Bypass
    /\ stored.data[2] # 35
    /\ vcall.out = stored.plain

\* bytes the JSON encoder writes as they are
PlainText(v) == \A i \in 1..Len(v) : v[i] >= 32 /\ v[i] < 127 /\ v[i] \notin {34, 92}

\* C14: the text form.  MarshalJSON gives "" for the empty value.  For any
\* other value, with c the envelope Encrypt gives: when c is valid UTF-8
\* the literal is a JSON string that starts with '#' and reads '#' followed
\* by c; when c is not valid UTF-8 the literal is the base64 of c between
\* quotes, with no '#' in it.  A bypass crypter turns a plain text v into
\* "##v".
C14_TextForm ==
    (vcall.op = "MarshalJSON" /\ vcall.panic = PanicNone)
        => /\ vcall.err = ErrNone
           /\ IF vcall.arg = <<>> THEN vcall.out = <<34, 34>>
              ELSE \E nonce \in Nonces :
                    LET c == EncryptCall(CrypterOf(vcall.kind), vcall.arg, nonce).out
                        n == Len(vcall.out)
                        body == SubSeq(vcall.out, 2, n - 1)
                    IN  /\ n >= 2
                        /\ vcall.out[1] = 34
                        /\ vcall.out[n] = 34
                        /\ IF utf8Valid(c)
                           THEN /\ body[1] = 35
                                /\ Unquote(vcall.out) = [ok |-> TRUE, s |-> <<35>> \o c]
                           ELSE /\ \A i \in 1..Len(body) : body[i] # 35
                                /\ base64Decode(body) = [ok |-> TRUE, b |-> c]
           /\ (vcall.arg # <<>> /\ CrypterOf(vcall.kind).Bypass /\ PlainText(vcall.arg))
                 => vcall.out = <<34, 35, 35>> \o vcall.arg \o <<34>>

\* a normal-mode crypter gave an envelope that is valid UTF-8, marshalled
\* with the marker
C14_Witness ==
    /\ vcall.op = "MarshalJSON"
    /\ vcall.panic = PanicNone
    /\ Len(vcall.arg) > 0
    /\ ~CrypterOf(vcall.kind).Bypass
    /\ SubSeq(vcall.out, 1, 3) = <<34, 35, 92>>

\* C15: UnmarshalJSON, as claimed.  "" and null give the empty value; a
\* literal whose second character is '#' is read as a JSON string, the
\* marker is dropped and the rest decrypted; any other literal is
\* base64-decoded and decrypted; a literal that is not such a string, and a
\* failed decryption, give an error.
C15_Discrimination ==
    (vcall.op = "UnmarshalJSON" /\ vcall.panic = PanicNone)
        => LET data == vcall.arg
               u == Unquote(data)
               b == base64Decode(u.s)
               d1 == DecryptCall(CrypterOf(vcall.kind), Tail(u.s))
               d2 == DecryptCall(CrypterOf(vcall.kind), b.b)
           IN  IF data = <<34, 34>> \/ data = <<110, 117, 108, 108>>
               THEN vcall.err = ErrNone /\ vcall.out = <<>>
               ELSE IF Len(data) >= 2 /\ data[2] = 35
               THEN IF ~u.ok THEN vcall.err # ErrNone
                    ELSE /\ vcall.err = d1.err
                         /\ d1.err = ErrNone => vcall.out = d1.out
               ELSE IF ~u.ok \/ ~b.ok THEN vcall.err # ErrNone
               ELSE /\ vcall.err = d2.err
                    /\ d2.err = ErrNone => vcall.out = d2.out

\* C16: SQL round trip, for a kind that has a crypter.  Value returns a non-nil byte sequence and no
\* error: of length zero for the empty value, otherwise the envelope
\* Encrypt gives, which the crypter decrypts to the value; Scan of what
\* Value returned gives the value.
C16_SQLRoundTrip ==
    /\ (vcall.op = "Value" /\ vcall.panic = PanicNone)
          => /\ ~vcall.outNil
             /\ vcall.err = ErrNone
             /\ IF vcall.arg = <<>> THEN vcall.out = <<>>
                ELSE /\ \E nonce \in Nonces :
                          vcall.out = EncryptCall(CrypterOf(vcall.kind),
                                                  vcall.arg, nonce).out
                     /\ DecryptCall(CrypterOf(vcall.kind), vcall.out)
                            = [out |-> vcall.arg, err |-> ErrNone]
    /\ (ReadBack("Scan", "sql") /\ Bound(stored.kind))
          => /\ vcall.panic = PanicNone
             /\ vcall.err = ErrNone
             /\ vcall.out = stored.plain

\* the longest text came back from the envelope a normal-mode crypter made
C16_Witness ==
    /\ ReadBack("Scan", "sql")
    /\ Len(stored.plain) = MaxLen
    /\ ~CrypterOf(stored.kind).Bypass
    /\ stored.data[1] = 1
    /\ vcall.out = stored.plain

\* C17: Scan by input type, for a kind that has a crypter.  NULL, the empty
\* []byte and the empty string give the empty value; any other []byte or
\* string is decrypted as an envelope, so that the string "#H" gives "H"
\* under a normal-mode crypter; any other type gives the scan error.
C17_ScanDispatch ==
    (vcall.op = "Scan" /\ vcall.panic = PanicNone)
        => LET d == DecryptCall(CrypterOf(vcall.kind), vcall.arg)
           IN  /\ IF vcall.argType = "nil"
                  THEN vcall.err = ErrNone /\ vcall.out = <<>>
                  ELSE IF vcall.argType \in {"[]byte", "string"}
                  THEN IF vcall.arg = <<>>
                       THEN vcall.err = ErrNone /\ vcall.out = <<>>
                       ELSE /\ vcall.err = d.err
                            /\ d.err = ErrNone => vcall.out = d.out
                  ELSE vcall.err = ErrScan
               /\ (vcall.argType = "string" /\ vcall.arg = <<35, 72>>)
                     => (vcall.err = ErrNone /\ vcall.out = <<72>>)

\* the string "#H" was scanned to "H" by a value whose crypter is in normal
\* mode and holds a key
C17_Witness ==
    /\ vcall.op = "Scan"
    /\ vcall.argType = "string"
    /\ vcall.arg = <<35, 72>>
    /\ Bound(vcall.kind)
    /\ ~CrypterOf(vcall.kind).Bypass
    /\ CrypterOf(vcall.kind).keys # NoKeys
    /\ vcall.out = <<72>>

(***************************************************************************)
(* Properties of the streaming writer.                                     *)
(***************************************************************************)
\* the writer was closed and no call panicked
WriterDone == ew.made /\ ew.closeCalls >= 1 /\ call.panic = PanicNone

\* the envelope Encrypt makes in one Write: of the bytes written, under the
\* mode and key in force at the first non-empty Write
OneShot == FirstWrite(ew.atFirst, ew.written, ew.nonce).out

\* C18: idempotent close, as claimed.  However many times Close is called
\* on a writer, the Close of its engine writer is called exactly once and
\* the sink holds the envelope of what was written, nothing more; Close
\* before any write leaves the sink empty.
C18_CloseOnce ==
    /\ ew.sio.closeCalls <= 1
    /\ (WriterDone /\ ew.sio # NoSio) => ew.sio.closeCalls = 1
    /\ (WriterDone /\ ew.written = <<>>) => ew.w = <<>>
    /\ (WriterDone /\ ew.written # <<>>) => ew.w = OneShot

\* C19: any chunking.  While nothing but zero-length pieces was written the
\* sink holds nothing, also after Close.  Otherwise one tag was sent, as
\* the first byte of the sink, and after Close the sink holds the envelope
\* that one Write of all the bytes gives, which the crypter decrypts to the
\* bytes written in their order.
C19_AnyChunking ==
    (ew.made /\ call.panic = PanicNone)
        => /\ ew.written = <<>> => (ew.w = <<>> /\ ew.tags = 0)
           /\ ew.written # <<>>
                 => /\ ew.tags = 1
                    /\ ew.w[1] = (IF ew.atFirst.Bypass THEN 35 ELSE 1)
                    /\ ~ew.atFirst.Bypass
                          => /\ Len(ew.w) >= 5
                             /\ readUint32(SubSeq(ew.w, 2, 5)) = ew.atFirst.lastKeyID
           /\ (WriterDone /\ ew.written # <<>>)
                 => /\ ew.w = OneShot
                    /\ DecryptCall(Self, ew.w) = [out |-> ew.written, err |-> ErrNone]

\* the longest text, written in more than one piece to a normal-mode
\* writer, is in the sink as one envelope after Close
C19_Witness ==
    /\ WriterDone
    /\ ~ew.atFirst.Bypass
    /\ ew.pieces >= 2
    /\ Len(ew.written) = MaxLen
    /\ DecryptCall(Self, ew.w).out = ew.written

\* the Write that sends the tag takes mode and key from the crypter as it is
\* at that call; later steps leave the mode and the engine's key alone
C20_Step ==
    /\ (ew.made /\ ew.tags = 0 /\ ew'.tags = 1 /\ call'.panic = PanicNone)
          => /\ ew'.w[1] = (IF Bypass THEN 35 ELSE 1)
             /\ ew'.WriteFunc = (IF Bypass THEN "w.Write" ELSE "sioWriter.Write")
             /\ ~Bypass
                   => /\ readUint32(SubSeq(ew'.w, 2, 5)) = lastKeyID
                      /\ ew'.sio.key = SubSeq(keys[lastKeyID], 1, 32)
    /\ (ew.tags = 1 /\ call.panic = PanicNone)
          => /\ ew'.WriteFunc = ew.WriteFunc
             /\ ew'.sio.key = ew.sio.key
             /\ ew'.tags = 1
             /\ Len(ew'.w) >= Len(ew.w)
             /\ SubSeq(ew'.w, 1, Len(ew.w)) = ew.w

\* a zero-length Write, an AddKey or an assignment to Bypass before the
\* first non-empty Write leaves the writer undecided
C20_Undecided ==
    (ew.made /\ ew.written = <<>> /\ call.panic = PanicNone)
        => (ew.WriteFunc = "first" /\ ew.sio = NoSio)

\* C20: mode and key of a writer.  They are those of the crypter at the
\* first non-empty Write, not at EncryptWriter; after that Write no AddKey
\* and no change of Bypass alters how the stream is written: the sink only
\* grows, and after Close it holds the envelope of the bytes written under
\* the mode and key of that first Write.
C20_ModeAtFirstWrite ==
    /\ [][C20_Step]_vars
    /\ [](C20_Undecided)
    /\ []((WriterDone /\ ew.written # <<>>) => ew.w = OneShot)

\* a writer made by a bypass crypter without keys wrote a normal-mode
\* envelope, the crypter having got a key and left bypass mode before the
\* first Write; it got another key and went back to bypass mode before the
\* second Write
C20_Witness ==
    /\ WriterDone
    /\ ew.atMake.Bypass
    /\ ew.atMake.keys = NoKeys
    /\ ~ew.atFirst.Bypass
    /\ Bypass
    /\ lastKeyID # ew.atFirst.lastKeyID
    /\ ew.pieces >= 2
    /\ ew.w[1] = 1
    /\ DecryptCall(Self, ew.w).out = ew.written

(***************************************************************************)
(* Properties of DecryptReader.                                            *)
(***************************************************************************)
\* DecryptReader was given a stream that has a tag
ReadTagged == call.op = "DecryptReader" /\ call.data # <<>>

\* the stream holds a whole key id after its tag
HasKeyID == Len(call.data) >= 5

KeyIDRead == readUint32(SubSeq(call.data, 2, 5))

\* C21: dispatch on the tag.  A stream whose first byte is neither 1 nor
\* '#' fails with ErrUnsupportedVersion.  A stream with tag 1 and a whole
\* key id that the crypter does not hold fails with ErrUnknownKey, the
\* engine not called, also when nothing follows the key id.  A stream with
\* tag '#' gives the bytes after the tag as they are, whatever keys the
\* crypter holds.  No bytes come with an error.
C21_TagDispatch ==
    ReadTagged
        => /\ call.data[1] \notin {TagV1, TagBypass}
                 => (call.err = ErrUnsupportedVersion /\ call.engine = <<>>)
           /\ (call.data[1] = TagV1 /\ HasKeyID /\ KeyIDRead \notin DOMAIN keys)
                 => (call.err = ErrUnknownKey /\ call.engine = <<>>)
           /\ call.data[1] = TagBypass
                 => /\ call.err = ErrNone
                    /\ call.out = Tail(call.data)
                    /\ call.engine = <<>>
           /\ call.err # ErrNone => call.out = <<>>

\* a crypter that holds a key read tag 1 and the id of a key it does not
\* hold, nothing after it, and answered ErrUnknownKey
C21_Witness ==
    /\ ReadTagged
    /\ keys # NoKeys
    /\ Len(call.data) = 5
    /\ call.data[1] = TagV1
    /\ KeyIDRead \notin DOMAIN keys
    /\ call.err = ErrUnknownKey

\* C22: degenerate envelope.  Tag 1 and the id of a key the crypter holds
\* with nothing after them give the empty plaintext and no error, the
\* engine not called.  With at least one byte after the key id the engine
\* is called once, on all the bytes after the key id in their order, and
\* its answer is the answer of DecryptReader.
C22_Degenerate ==
    (ReadTagged /\ call.data[1] = TagV1 /\ HasKeyID /\ KeyIDRead \in DOMAIN keys)
        => LET rest == SubSeq(call.data, 6, Len(call.data))
               e == EngineDecrypt(EngineKey(keys[KeyIDRead]), sioMinVersion, rest)
           IN  /\ rest = <<>>
                     => (call.out = <<>> /\ call.err = ErrNone /\ call.engine = <<>>)
               /\ rest # <<>>
                     => /\ call.engine = <<rest>>
                        /\ e.ok => (call.out = e.data /\ call.err = ErrNone)
                        /\ ~e.ok => (call.out = <<>> /\ call.err = ErrEngine)

\* the five bytes of tag 1 and the id of a key held were read, to the empty
\* plaintext
C22_Witness ==
    /\ ReadTagged
    /\ Len(call.data) = 5
    /\ call.data[1] = TagV1
    /\ KeyIDRead \in DOMAIN keys
    /\ call.out = <<>>
    /\ call.err = ErrNone
    /\ call.engine = <<>>

(***************************************************************************)
(* Properties of a crypter without keys.                                   *)
(***************************************************************************)
\* the first non-empty Write of a writer, on a crypter that is in normal
\* mode and holds no key: it panics, takes none of the bytes, starts no
\* engine writer, and the sink holds the tag and the key id 0 only
C23_WriteStep ==
    (/\ ew.made /\ ew.tags = 0
     /\ keys = NoKeys /\ ~Bypass
     /\ call'.op = "Write" /\ call'.data # <<>>)
        => /\ call'.panic = PanicNoKeys
           /\ call'.out = <<>>
           /\ ew'.written = <<>>
           /\ ew'.sio = NoSio
           /\ ew'.w = <<TagV1>> \o writeUint32(0)

\* Encrypt of a non-empty text on such a crypter: it panics, returns
\* nothing and leaves nothing on the wire
C23_EncryptStep ==
    (keys = NoKeys /\ ~Bypass /\ call'.op = "Encrypt" /\ call'.data # <<>>)
        => /\ call'.panic = PanicNoKeys
           /\ call'.out = <<>>
           /\ wire' = wire

\* C23: no key configured.  On a normal-mode crypter to which no key was
\* added, the first non-empty Write of a writer and Encrypt of a non-empty
\* text panic with "no keys were added"; neither returns, and neither hands
\* out a ciphertext or a copy of the text.
C23_NoKey == [][C23_WriteStep]_vars /\ [][C23_EncryptStep]_vars

\* a writer of a crypter without keys panicked on its first bytes, after an
\* empty Encrypt went well
C23_Witness ==
    /\ call.op = "Write"
    /\ call.data # <<>>
    /\ call.panic = PanicNoKeys
    /\ keys = NoKeys
    /\ ~Bypass
    /\ ew.w = <<TagV1>> \o writeUint32(0)
    /\ ew.written = <<>>

(***************************************************************************)
(* Properties of the receiver of UnmarshalJSON and Scan.                   *)
(***************************************************************************)
\* C24: a failed deserialization leaves the destination as it was, as
\* claimed.  When UnmarshalJSON or Scan returns an error, the value it was
\* called on holds the bytes it held before the call.
C24_DestinationKept ==
    (/\ vcall.op \in {"UnmarshalJSON", "Scan"}
     /\ vcall.panic = PanicNone
     /\ vcall.err # ErrNone)
        => vcall.out = vcall.dst

\* the part of C24 that the code keeps: Scan, and UnmarshalJSON when the
\* literal itself is malformed
C24_ScanKept ==
    (/\ vcall.panic = PanicNone
     /\ vcall.err # ErrNone
     /\ \/ vcall.op = "Scan"
        \/ vcall.op = "UnmarshalJSON" /\ vcall.err = ErrJSON)
        => vcall.out = vcall.dst

(***************************************************************************)
(* Properties of the hooks on empty values.                                *)
(***************************************************************************)
\* the last call was a hook on an empty value: MarshalJSON or Value of the
\* empty value, UnmarshalJSON of "" or null, Scan of NULL, of an empty
\* []byte or of the empty string
EmptyCase ==
    \/ vcall.op \in {"MarshalJSON", "Value"} /\ vcall.arg = <<>>
    \/ vcall.op = "UnmarshalJSON" /\ vcall.arg \in {EmptyStringLiteral, NullLiteral}
    \/ vcall.op = "Scan" /\ vcall.argType = "nil"
    \/ vcall.op = "Scan" /\ vcall.argType \in {"[]byte", "string"} /\ vcall.arg = <<>>

\* C25: empty values need no crypter, as claimed.  Every hook on an empty
\* value completes without a panic and without an error, whether or not a
\* crypter is registered for the kind of the value.
C25_EmptyNeedsNoCrypter ==
    EmptyCase => (vcall.panic = PanicNone /\ vcall.err = ErrNone)

\* the part of C25 that the code keeps: the hooks other than Scan, and Scan
\* for a kind that has a crypter
C25_EmptyButScan ==
    (EmptyCase /\ (vcall.op # "Scan" \/ Bound(vcall.kind)))
        => /\ vcall.panic = PanicNone
           /\ vcall.err = ErrNone
           /\ vcall.op \in {"UnmarshalJSON", "Scan", "Value"} => vcall.out = <<>>

====
